---- MODULE Spec2Model ----
(***************************************************************************)
(* A state-machine model of the NanoClaw host-side orchestration kernel:   *)
(* the router (index.ts), its message loop, the per-chat group queue, the  *)
(* WhatsApp and Discord agent runs, the router cursors and sessions with   *)
(* their persisted copies, and the mount list of the persistent-VM engine. *)
(***************************************************************************)
EXTENDS Integers, FiniteSets, Sequences, TLC

\* ------------------------------------------------------------------ bounds
MaxMsgs == 2          \* inbound messages stored, over all channels
MaxDiscordMsgs == 2   \* inbound Discord messages
MaxFrames == 1        \* streamed result frames of one agent run
MaxSids == 2          \* distinct session ids the agents emit
MaxCrashes == 1       \* crashes of the host process
MaxTaskRuns == 1      \* scheduled-task runs

\* ------------------------------------------------------------ configuration
MAIN_GROUP_FOLDER == "main"
REQUIRE_TRIGGER == TRUE

\* The empty cursor '' (smaller than every ISO timestamp) and the absent session.
EmptyTs == 0
NoSession == 0

\* Registered WhatsApp chats, the jid 'discord' of DISCORD_GROUP, Discord scopes.
Chats == {"main", "g1"}
DiscordScopes == {"dc"}
RegisteredJids == Chats \cup {"discord"}
AllChats == RegisteredJids \cup DiscordScopes

DISCORD_GROUP == [folder |-> "discord", requiresTrigger |-> FALSE]

\* The chats that own a scheduled task.
TaskChats == {"g1"}

registeredGroups ==
  [j \in RegisteredJids |->
     IF j = "discord" THEN DISCORD_GROUP
     ELSE [folder |-> j, requiresTrigger |-> (j # "main")]]

Folders == {registeredGroups[j].folder : j \in RegisteredJids}

VARIABLES
  store,               \* messages table: records [chat, ts, trig]
  lastTimestamp,       \* in-memory store-wide "seen" cursor
  lastAgentTimestamp,  \* in-memory per-chat cursor
  sessions,            \* in-memory folder -> session id
  db,                  \* persisted router_state and sessions
  queue,               \* GroupQueue state per registered chat
  run,                 \* the run in flight per registered chat
  dh,                  \* Discord handlings, by arrival index
  nextSid,             \* next fresh session id an agent emits
  crashes,             \* host crashes so far
  taskRuns,            \* scheduled runs enqueued so far
  handed,              \* history: timestamps ever handed to an agent
  failedPrompt,        \* history: prompt of a failed run not handed again yet
  storedSids,          \* history: session ids ever written to the Store
  repliedSids,         \* history: session ids of frames whose reply was sent
  lastEmitted,         \* history: last session id received from a run, per folder
  sidOwner,            \* history: the folder each session id was emitted for
  mounts,              \* mount list handed to a sandbox engine
  tart,                \* one-shot VM invocations, per workspace folder
  shutdown,            \* the host process: "running", "waiting" or "exited"
  child,               \* a child process of an engine and what was captured of it
  selector,            \* the agent CLI selection: environment, settings row, last run
  ipc,                 \* IPC directories and what the dispatcher did with their files
  sched,               \* scheduled tasks, their runs and the run log
  groups,              \* registered groups: in memory and in the store
  loops,               \* calls of startMessageLoop and the polling loops they started
  clones,              \* runs of the one-shot VM engine and the clones on disk
  inproc,              \* process.env directory variables and the runs that use them
  boot,                \* the store and the in-memory state across process starts
  tick,                \* one iteration of the message loop, chat by chat
  timer,               \* the idle timer of one chat's runs
  dc,                  \* the handlings of one Discord scope
  vibe,                \* the script files of persistent-VM runs
  sessOut              \* the output of one OpenCode run and the session id taken from it

\* State the router's steady-state actions leave alone.
otherVars == <<mounts, tart, shutdown, child, selector, ipc, sched, groups, loops, clones, inproc, boot, tick, timer, dc, vibe, sessOut>>

vars == <<store, lastTimestamp, lastAgentTimestamp, sessions, db, queue, run, dh,
          nextSid, crashes, taskRuns, handed, failedPrompt, storedSids,
          repliedSids, lastEmitted, sidOwner, otherVars>>

routerVars == <<store, lastTimestamp, lastAgentTimestamp, sessions, db, queue, run,
                dh, nextSid, crashes, taskRuns, handed, failedPrompt, storedSids,
                repliedSids, lastEmitted, sidOwner>>

\* ------------------------------------------------------------------ helpers
\* A child process before it is spawned. stdout and stderr are the lengths
\* captured so far, signals the signals sent to it with their sender, settled
\* the final result of the run, rejected whether the engine's promise was
\* rejected, doneReason the reason of the step_finish event that was seen,
\* errored whether the 'error' event came, code the exit code at close.
IdleChild == [engine |-> "none", pc |-> "idle", stdout |-> 0, stderr |-> 0,
              stdoutTruncated |-> FALSE, stderrTruncated |-> FALSE,
              doneSeen |-> FALSE, timedOut |-> FALSE, signals |-> <<>>,
              settled |-> "none", rejected |-> FALSE, doneReason |-> "none",
              errored |-> FALSE, code |-> "none"]

\* No agent CLI named: an unset variable, a missing row, no override.
Unset == ""

\* The selector before the process has read its environment.
IdleSelector == [booted |-> FALSE, env |-> Unset, setting |-> Unset,
                 last |-> [engine |-> "none", cfg |-> Unset, setting |-> Unset,
                           used |-> Unset]]

\* Empty IPC directories, no task, nothing sent. files are the request files
\* waiting in a workspace's directory, errors the files moved to ipc/errors,
\* log what the dispatcher decided for each file it handled.
IdleIpc == [files |-> {}, written |-> 0, errors |-> {}, tasks |-> {},
            nextTask |-> 1, sent |-> {}, registered |-> {}, refreshed |-> {},
            log |-> {}]

\* nextRun / lastRun of a task that has none.
Null == -1

\* A row of scheduled_tasks that does not exist.
NoTask == [scheduleType |-> "none", scheduleValue |-> 0, status |-> "absent",
           nextRun |-> Null, lastRun |-> Null, lastResult |-> "none"]

SchedTaskIds == 1..2

\* The scheduler before any task exists. live is the task whose run holds the
\* workspace (0: none) and liveAt its start; queued are the tasks waiting in the
\* group queue; started counts the runs of each task; runLog is task_run_logs.
IdleSched == [now |-> 0, tasks |-> [id \in SchedTaskIds |-> NoTask], used |-> {},
              live |-> 0, liveAt |-> 0, queued |-> {},
              started |-> [id \in SchedTaskIds |-> 0], runLog |-> {}]

\* Chats that can be registered, and the folder of a chat that is not.
GroupJids == {"main@jid", "g1@jid", "g2@jid", "discord"}
NoFolder == "-"

\* Before the first start: nothing in memory; the store holds the main group
\* that setup registered.
IdleGroups == [booted |-> FALSE,
               mem |-> [j \in GroupJids |-> NoFolder],
               db |-> [j \in GroupJids |->
                         IF j = "main@jid" THEN MAIN_GROUP_FOLDER ELSE NoFolder]]

\* No call of startMessageLoop yet. pc[i] is where the loop started by the i-th
\* call stands ("none": the call started no loop).
IdleLoops == [messageLoopRunning |-> FALSE, calls |-> 0, polls |-> 0, errors |-> 0,
              pc |-> [i \in 1..4 |-> "none"]]

\* No run of runTartAgent yet and no clone on disk; runs[i] is the i-th call.
NoCloneRun == [pc |-> "none", folder |-> "-", vmName |-> <<"-", 0>>]

IdleClones == [now |-> 0, runs |-> [i \in 1..4 |-> NoCloneRun], disk |-> {}]

\* Chats with a cursor in last_agent_timestamp, and a cursor map with no key.
BootChats == {"main", "g1"}
EmptyMap == [c \in {} |-> EmptyTs]

\* The text of a router_state row: a JSON object, text that JSON.parse rejects,
\* or no row.
jsonObject(m) == [kind |-> "object", value |-> m]
InvalidJson == [kind |-> "invalid", value |-> EmptyMap]
NoRow == [kind |-> "absent", value |-> EmptyMap]

\* The store of a fresh install and a process that has not started.
IdleBoot == [up |-> FALSE, warned |-> FALSE,
             db |-> [last_timestamp |-> Null, last_agent_timestamp |-> NoRow,
                     sessions |-> [f \in BootChats |-> NoSession],
                     groups |-> {"main"}],
             lastTimestamp |-> EmptyTs, lastAgentTimestamp |-> EmptyMap,
             sessions |-> [f \in BootChats |-> NoSession], registeredGroups |-> {}]

\* Chats polled by the message loop; the loop asleep with nothing new stored.
\* fresh is the chats with new messages in arrival order, trig[c] whether one
\* of c's new messages matches the trigger, batch the chats of the iteration
\* in hand, outcome[c] what the iteration did for c, threw the position in the
\* batch at which the iteration threw (0: it did not).
TickChats == {"main", "g1", "g2"}
IdleTick == [phase |-> "sleep", polls |-> 0, fresh |-> <<>>,
             trig |-> [c \in TickChats |-> FALSE],
             batch |-> <<>>, batchTrig |-> [c \in TickChats |-> FALSE],
             pos |-> 0, threw |-> 0,
             outcome |-> [c \in TickChats |-> "none"]]

\* processGroupMessages before a run: idleTimer is null. The counters are per
\* run: frames delivered, frames with a result, frames with only a session id,
\* times the timer was armed, times closeStdin was invoked, replies sent;
\* closedEarly and
\* closedLate record a closeStdin before the first result frame and after the
\* run returned.
IdleTimer == [pc |-> "none", idleTimer |-> "null", runs |-> 0, frames |-> 0,
              results |-> 0, sidOnly |-> 0, arms |-> 0, closes |-> 0, sent |-> 0,
              closedEarly |-> FALSE, closedLate |-> FALSE]

MaxDcHandlings == 2   \* inbound Discord messages of the scope

\* A Discord inbound message before it arrives, and one scope before any
\* message: nothing stored, the scope's cursor empty. Per handling: kind is
\* "msg" or "cmd", prompt the timestamps in its prompt, stored / spawned / moved
\* / sent whether it stored its message, started an agent, wrote the scope's
\* cursor, sent a reply; end is how it ended.
NoHandling == [pc |-> "free", kind |-> "none", ts |-> EmptyTs, prompt |-> {},
               result |-> FALSE, stored |-> FALSE, spawned |-> FALSE,
               moved |-> FALSE, sent |-> FALSE, end |-> "none"]
IdleDiscord == [messages |-> {}, lastAgentTimestamp |-> EmptyTs, arrived |-> 0,
                h |-> [i \in 1..MaxDcHandlings |-> NoHandling]]

MaxVibeRuns == 2    \* runs of runVibeAgent
MaxVibeClock == 1   \* readings of Date.now() after the first

\* /tmp before any persistent-VM run: no script at any path, no run started.
\* Per run: scriptPath, its prompt, and left = whether a file was at scriptPath
\* when runVibeAgent returned.
NoFile == "none"
IdleVibe == [now |-> 0,
             tmp |-> [t \in 0..MaxVibeClock |-> NoFile],
             runs |-> [r \in 1..MaxVibeRuns |->
                        [pc |-> "idle", scriptPath |-> 0, prompt |-> NoFile,
                         left |-> FALSE, outcome |-> "none"]]]

\* An OpenCode run whose engine has not been chosen: no output yet, no session
\* id captured or returned.
IdleCapture == [pc |-> "idle", engine |-> "none", stdout |-> <<>>,
                capturedSessionId |-> NoSession, newSessionId |-> NoSession]

\* Workspaces with agent runs, on the in-process engine or the one-shot VM engine.
EnvFolders == {"main", "g1", "g2"}

\* A directory variable that is not in process.env, and a run that has not spawned.
NoDir == <<>>

\* process.env and the runs before any run: the directory variables are unset.
\* pc[f] is where the run of workspace f stands; cwd[f] and ipcDir[f] are what
\* its spawned agent CLI got.
IdleInproc == [NANOCLAW_GROUP_DIR |-> NoDir, NANOCLAW_IPC_DIR |-> NoDir,
               pc |-> [f \in EnvFolders |-> "idle"],
               cwd |-> [f \in EnvFolders |-> NoDir],
               ipcDir |-> [f \in EnvFolders |-> NoDir]]

\* Workspaces run on the one-shot VM engine.
TartFolders == {"main", "g1"}

\* runTartAgent before it is called: no clone, no VM, no result.
IdleTart == [pc |-> "idle", clone |-> FALSE, vm |-> "off", vmIP |-> FALSE,
             status |-> "none"]

Max(S) == CHOOSE x \in S : \A y \in S : y <= x

Timestamps(ms) == {m.ts : m \in ms}

\* msgs[msgs.length - 1].timestamp of a list ordered by timestamp ascending.
LastTs(ms) == Max(Timestamps(ms))

NextTs == Cardinality(store) + 1

\* Store queries (db.ts): strictly after the cursor, for the given chats.
getNewMessages(jids, since) == {m \in store : m.chat \in jids /\ m.ts > since}

newTimestamp(msgs, since) == IF msgs = {} THEN since ELSE LastTs(msgs)

getMessagesSince(chatJid, since) == {m \in store : m.chat = chatJid /\ m.ts > since}

isMainGroup(c) == registeredGroups[c].folder = MAIN_GROUP_FOLDER

needsTrigger(c) ==
  ~isMainGroup(c) /\ REQUIRE_TRIGGER /\ registeredGroups[c].requiresTrigger # FALSE

hasTrigger(ms) == \E m \in ms : m.trig

\* saveState without the write of last_agent_timestamp.
saveStateTimestampOnly(d, ts, agentTs) == [d EXCEPT !.last_timestamp = ts]

\* saveState(): both cursors are written through to router_state.
saveState(d, ts, agentTs) ==
  [d EXCEPT !.last_timestamp = ts, !.last_agent_timestamp = agentTs]

\* setSession(folder, id)
setSession(d, folder, sid) == [d EXCEPT !.sessions[folder] = sid]

IdleRun ==
  [kind |-> "none", pc |-> "idle", prev |-> EmptyTs, prompt |-> {}, piped |-> {},
   sid |-> NoSession, expected |-> NoSession, hadError |-> FALSE, sent |-> 0,
   frames |-> 0, frame |-> [status |-> "success", result |-> FALSE, sid |-> NoSession],
   cbi |-> 0, mode |-> "none", recovered |-> FALSE]

IdleQueue == [active |-> FALSE, pendingMessages |-> FALSE, pendingTask |-> "none",
              proc |-> "none"]

IdleHandling ==
  [pc |-> "free", scope |-> "dc", ts |-> EmptyTs, sid |-> NoSession,
   expected |-> NoSession, out |-> [result |-> FALSE, sid |-> NoSession]]

\* ------------------------------------------------------------------- Init
Init ==
  /\ store = {}
  /\ lastTimestamp = EmptyTs
  /\ lastAgentTimestamp = [c \in AllChats |-> EmptyTs]
  /\ sessions = [f \in Folders |-> NoSession]
  /\ db = [last_timestamp |-> EmptyTs,
           last_agent_timestamp |-> [c \in AllChats |-> EmptyTs],
           sessions |-> [f \in Folders |-> NoSession]]
  /\ queue = [c \in Chats |-> IdleQueue]
  /\ run = [c \in Chats |-> IdleRun]
  /\ dh = [h \in 1..MaxDiscordMsgs |-> IdleHandling]
  /\ nextSid = 1
  /\ crashes = 0
  /\ taskRuns = 0
  /\ handed = {}
  /\ failedPrompt = [c \in Chats |-> {}]
  /\ storedSids = {}
  /\ repliedSids = {}
  /\ lastEmitted = [f \in Folders |-> NoSession]
  /\ sidOwner = [s \in 1..MaxSids |-> "none"]
  /\ mounts = <<>>
  /\ tart = [f \in TartFolders |-> IdleTart]
  /\ shutdown = "running"
  /\ child = IdleChild
  /\ selector = IdleSelector
  /\ ipc = IdleIpc
  /\ sched = IdleSched
  /\ groups = IdleGroups
  /\ loops = IdleLoops
  /\ clones = IdleClones
  /\ inproc = IdleInproc
  /\ boot = IdleBoot
  /\ tick = IdleTick
  /\ timer = IdleTimer
  /\ dc = IdleDiscord
  /\ vibe = IdleVibe
  /\ sessOut = IdleCapture

\* ------------------------------------------------------- inbound messages
\* The channel's onMessage callback: storeMessage(msg).
StoreMessage(c, trig) ==
  /\ Cardinality(store) < MaxMsgs
  /\ needsTrigger(c) \/ ~trig    \* a trigger only matters where one is required
  /\ store' = store \cup {[chat |-> c, ts |-> NextTs, trig |-> trig]}
  /\ UNCHANGED <<lastTimestamp, lastAgentTimestamp, sessions, db, queue, run, dh,
                 nextSid, crashes, taskRuns, handed, failedPrompt, storedSids,
                 repliedSids, lastEmitted, sidOwner, otherVars>>

\* ------------------------------------------------------------- group queue
\* processGroupMessages up to its first await: does the run go on to an agent?
\* (It returns at once when nothing is pending or no message matches the trigger.)
startsRun(c, cursor) ==
  LET missedMessages == getMessagesSince(c, cursor)
  IN /\ missedMessages # {}
     /\ needsTrigger(c) => hasTrigger(missedMessages)

\* The cursor is advanced to the last missed message before the agent is invoked.
advancedCursorStoreWide(c, cursor) == LastTs(store)

advancedCursor(c, cursor) == LastTs(getMessagesSince(c, cursor))

messageRunWholeHistory(c, cursor) ==
  [IdleRun EXCEPT !.kind = "msg", !.pc = "typing", !.prev = cursor,
                  !.prompt = Timestamps(getMessagesSince(c, EmptyTs))]

messageRun(c, cursor) ==
  [IdleRun EXCEPT !.kind = "msg", !.pc = "typing", !.prev = cursor,
                  !.prompt = Timestamps(getMessagesSince(c, cursor))]

\* The session a scheduled run is given: the workspace's for contextMode
\* "group", none for "isolated".
taskSession(mode, sess) == IF mode = "group" THEN sess ELSE NoSession

taskRun(mode, sess, emitted) ==
  [IdleRun EXCEPT !.kind = "task", !.pc = "agent", !.mode = mode,
                  !.sid = taskSession(mode, sess),
                  !.expected = taskSession(mode, emitted)]

\* An enqueue that is dropped while a run is in flight.
enqueueMessageCheckLost(c, q, r, cursor) ==
  IF q.active
    THEN [queue |-> q, run |-> r, cursor |-> cursor]
    ELSE IF startsRun(c, cursor)
      THEN [queue |-> [q EXCEPT !.active = TRUE], run |-> messageRun(c, cursor),
            cursor |-> advancedCursor(c, cursor)]
      ELSE [queue |-> q, run |-> r, cursor |-> cursor]

\* GroupQueue.enqueueMessageCheck: with a run in flight the work is marked
\* pending; otherwise a run starts. The result is the chat's queue entry, its
\* run and its cursor.
enqueueMessageCheck(c, q, r, cursor) ==
  IF q.active
    THEN [queue |-> [q EXCEPT !.pendingMessages = TRUE], run |-> r, cursor |-> cursor]
    ELSE IF startsRun(c, cursor)
      THEN [queue |-> [q EXCEPT !.active = TRUE], run |-> messageRun(c, cursor),
            cursor |-> advancedCursor(c, cursor)]
      ELSE [queue |-> q, run |-> r, cursor |-> cursor]

\* GroupQueue.enqueueTask
enqueueTask(q, r, mode, sess, emitted) ==
  IF q.active
    THEN [queue |-> [q EXCEPT !.pendingTask = mode], run |-> r]
    ELSE [queue |-> [q EXCEPT !.active = TRUE, !.proc = "open"],
          run |-> taskRun(mode, sess, emitted)]

\* The queue after a run of the chat ended: a pending task runs first, then
\* pending messages; otherwise the chat is idle.
drainGroup(c, q, cursor, sess, emitted) ==
  IF q.pendingTask # "none"
    THEN [queue |-> [q EXCEPT !.pendingTask = "none", !.active = TRUE,
                              !.proc = "open"],
          run |-> taskRun(q.pendingTask, sess, emitted), cursor |-> cursor]
    ELSE IF q.pendingMessages /\ startsRun(c, cursor)
      THEN [queue |-> [q EXCEPT !.pendingMessages = FALSE, !.active = TRUE,
                                !.proc = "none"],
            run |-> messageRun(c, cursor), cursor |-> advancedCursor(c, cursor)]
      ELSE [queue |-> IdleQueue, run |-> IdleRun, cursor |-> cursor]

\* ----------------------------------------------------------- message loop
groupMessages(msgs, c) == {m \in msgs : m.chat = c}

\* The chat is acted on in this tick: it has new messages and, where a trigger
\* is needed, one of the new messages matches it.
actsOnAny(msgs, c) == groupMessages(msgs, c) # {}

actsOn(msgs, c) ==
  /\ groupMessages(msgs, c) # {}
  /\ needsTrigger(c) => hasTrigger(groupMessages(msgs, c))

allPending(c, cursor) == getMessagesSince(c, cursor)

messagesToSend(msgs, c, cursor) ==
  IF allPending(c, cursor) # {} THEN allPending(c, cursor) ELSE groupMessages(msgs, c)

\* GroupQueue.sendMessage: accepted iff a live process with open stdin exists.
sendMessage(q) == q.proc = "open"

\* The cursor written after a successful pipe.
pipedCursorFirst(toSend) ==
  CHOOSE t \in Timestamps(toSend) : \A u \in Timestamps(toSend) : t <= u

pipedCursor(toSend) == LastTs(toSend)

\* One iteration of the while loop of startMessageLoop, from the router state
\* (ts, cursors, q, r): the state it leaves and what it piped to each chat.
loopIteration(ts, cursors, q, r) ==
  LET msgs == getNewMessages(RegisteredJids, ts)
      piped(c) == actsOn(msgs, c) /\ sendMessage(q[c])
      enq(c) == IF actsOn(msgs, c) /\ ~piped(c)
                  THEN enqueueMessageCheck(c, q[c], r[c], cursors[c])
                  ELSE [queue |-> q[c], run |-> r[c], cursor |-> cursors[c]]
      toSend(c) == IF piped(c) THEN Timestamps(messagesToSend(msgs, c, cursors[c]))
                   ELSE {}
  IN [lastTimestamp |-> newTimestamp(msgs, ts),
      cursors |-> [c \in AllChats |->
                     IF c \notin Chats THEN cursors[c]
                     ELSE IF piped(c)
                       THEN pipedCursor(messagesToSend(msgs, c, cursors[c]))
                     ELSE enq(c).cursor],
      queue |-> [c \in Chats |-> enq(c).queue],
      run |-> [c \in Chats |->
                 IF piped(c) THEN [r[c] EXCEPT !.piped = @ \cup toSend(c)]
                 ELSE enq(c).run],
      piped |-> [c \in Chats |-> toSend(c)]]

\* An iteration of the message loop that found messages.
MessageLoopTick ==
  LET it == loopIteration(lastTimestamp, lastAgentTimestamp, queue, run)
  IN /\ getNewMessages(RegisteredJids, lastTimestamp) # {}
     /\ lastTimestamp' = it.lastTimestamp
     /\ lastAgentTimestamp' = it.cursors
     /\ db' = saveState(db, it.lastTimestamp, it.cursors)
     /\ queue' = it.queue
     /\ run' = it.run
     /\ handed' = handed \cup UNION {it.piped[c] : c \in Chats}
     /\ failedPrompt' = [c \in Chats |->
                           IF it.piped[c] # {} THEN {} ELSE failedPrompt[c]]
     /\ UNCHANGED <<store, sessions, dh, nextSid, crashes, taskRuns, storedSids,
                    repliedSids, lastEmitted, sidOwner, otherVars>>

\* --------------------------------------------------- processGroupMessages
\* After setTyping: the session is read and runAgent spawns the agent, which
\* registers its process with the queue.
SpawnAgent(c) ==
  /\ run[c].kind = "msg"
  /\ run[c].pc = "typing"
  /\ run' = [run EXCEPT ![c].pc = "agent",
                        ![c].sid = sessions[registeredGroups[c].folder],
                        ![c].expected = lastEmitted[registeredGroups[c].folder],
                        ![c].recovered = FALSE]
  /\ queue' = [queue EXCEPT ![c].proc = "open"]
  /\ handed' = handed \cup run[c].prompt
  /\ failedPrompt' = [failedPrompt EXCEPT ![c] = {}]
  /\ UNCHANGED <<store, lastTimestamp, lastAgentTimestamp, sessions, db, dh, nextSid,
                 crashes, taskRuns, storedSids, repliedSids, lastEmitted, sidOwner,
                 otherVars>>

\* The session id a frame or a final output carries: none, or a fresh one.
EmittedSid(withSid) == IF withSid /\ nextSid <= MaxSids THEN nextSid ELSE NoSession

\* The agent streams one framed result; the streaming callback is entered.
AgentFrame(c, status, result, withSid) ==
  LET sid == EmittedSid(withSid)
  IN /\ run[c].kind = "msg"
     /\ run[c].pc = "agent"
     /\ run[c].frames < MaxFrames
     /\ result \/ sid # NoSession \/ status = "error"
     /\ run' = [run EXCEPT ![c].pc = "callback",
                           ![c].frames = @ + 1,
                           ![c].cbi = 1,
                           ![c].frame = [status |-> status, result |-> result,
                                         sid |-> sid]]
     /\ nextSid' = IF sid # NoSession THEN nextSid + 1 ELSE nextSid
     /\ sidOwner' = IF sid # NoSession
                      THEN [sidOwner EXCEPT ![sid] = registeredGroups[c].folder]
                      ELSE sidOwner
     /\ UNCHANGED <<store, lastTimestamp, lastAgentTimestamp, sessions, db, queue, dh,
                    crashes, taskRuns, handed, failedPrompt, storedSids, repliedSids,
                    lastEmitted, otherVars>>

\* The order of the effects of the streaming callback: the session is recorded,
\* then the reply is sent (followed by saveState and the status check).
CallbackStepsSendFirst == <<"send", "session">>

CallbackSteps == <<"session", "send">>

CallbackAdvance(r) ==
  IF r.cbi = Len(CallbackSteps)
    THEN [r EXCEPT !.pc = "agent", !.cbi = 0,
                   !.hadError = @ \/ r.frame.status = "error"]
    ELSE [r EXCEPT !.cbi = @ + 1]

\* if (result.newSessionId) { sessions[folder] = id; setSession(folder, id) }
CallbackSession(c) ==
  LET f == registeredGroups[c].folder
      sid == run[c].frame.sid
  IN /\ run[c].pc = "callback"
     /\ CallbackSteps[run[c].cbi] = "session"
     /\ run' = [run EXCEPT ![c] = CallbackAdvance(run[c])]
     /\ IF sid # NoSession
          THEN /\ sessions' = [sessions EXCEPT ![f] = sid]
               /\ db' = setSession(db, f, sid)
               /\ storedSids' = storedSids \cup {sid}
               /\ lastEmitted' = [lastEmitted EXCEPT ![f] = sid]
          ELSE UNCHANGED <<sessions, db, storedSids, lastEmitted>>
     /\ UNCHANGED <<store, lastTimestamp, lastAgentTimestamp, queue, dh, nextSid,
                    crashes, taskRuns, handed, failedPrompt, repliedSids, sidOwner,
                    otherVars>>

\* if (result.result) { await whatsapp.sendMessage(chatJid, text); saveState() }
CallbackSend(c) ==
  LET sid == run[c].frame.sid
  IN /\ run[c].pc = "callback"
     /\ CallbackSteps[run[c].cbi] = "send"
     /\ run' = [run EXCEPT ![c] =
                  [CallbackAdvance(run[c]) EXCEPT
                     !.sent = IF run[c].frame.result THEN @ + 1 ELSE @]]
     /\ repliedSids' = IF run[c].frame.result /\ sid # NoSession
                         THEN repliedSids \cup {sid} ELSE repliedSids
     /\ db' = IF run[c].frame.result
                THEN saveState(db, lastTimestamp, lastAgentTimestamp) ELSE db
     /\ UNCHANGED <<store, lastTimestamp, lastAgentTimestamp, sessions, queue, dh,
                    nextSid, crashes, taskRuns, handed, failedPrompt, storedSids,
                    lastEmitted, sidOwner, otherVars>>

\* runAgent settles (status "throw": it rejects): the final newSessionId is
\* recorded, the error flag is set, setTyping(false) is awaited.
AgentExit(c, status, withSid) ==
  LET f == registeredGroups[c].folder
      sid == IF status = "throw" THEN NoSession ELSE EmittedSid(withSid)
  IN /\ run[c].kind = "msg"
     /\ run[c].pc = "agent"
     /\ run' = [run EXCEPT ![c].pc = "typingOff",
                           ![c].hadError = @ \/ status # "success"]
     /\ queue' = [queue EXCEPT ![c].proc = "none"]
     /\ nextSid' = IF sid # NoSession THEN nextSid + 1 ELSE nextSid
     /\ IF sid # NoSession
          THEN /\ sessions' = [sessions EXCEPT ![f] = sid]
               /\ db' = setSession(db, f, sid)
               /\ storedSids' = storedSids \cup {sid}
               /\ lastEmitted' = [lastEmitted EXCEPT ![f] = sid]
               /\ sidOwner' = [sidOwner EXCEPT ![sid] = f]
          ELSE UNCHANGED <<sessions, db, storedSids, lastEmitted, sidOwner>>
     /\ UNCHANGED <<store, lastTimestamp, lastAgentTimestamp, dh, crashes, taskRuns,
                    handed, failedPrompt, repliedSids, otherVars>>

\* A rollback to the cursor the run itself wrote when it started.
rollbackToPrompt(r) == IF r.prompt = {} THEN r.prev ELSE Max(r.prompt)

\* The cursor a failed run leaves behind.
rollbackCursor(r) == r.prev

\* if (hadError) { lastAgentTimestamp[chatJid] = previousCursor; saveState();
\* return false } return true - and the queue ends the run and drains.
FinishRun(c) ==
  LET rolled == IF run[c].hadError THEN rollbackCursor(run[c])
                ELSE lastAgentTimestamp[c]
      f == registeredGroups[c].folder
      next == drainGroup(c, queue[c], rolled, sessions[f], lastEmitted[f])
      cursors == [lastAgentTimestamp EXCEPT ![c] = next.cursor]
  IN /\ run[c].kind = "msg"
     /\ run[c].pc = "typingOff"
     /\ lastAgentTimestamp' = cursors
     /\ db' = IF run[c].hadError \/ next.cursor # rolled
                THEN saveState(db, lastTimestamp, cursors) ELSE db
     /\ failedPrompt' = IF run[c].hadError
                          THEN [failedPrompt EXCEPT ![c] = run[c].prompt]
                          ELSE failedPrompt
     /\ run' = [run EXCEPT ![c] = next.run]
     /\ queue' = [queue EXCEPT ![c] = next.queue]
     /\ UNCHANGED <<store, lastTimestamp, sessions, dh, nextSid, crashes, taskRuns,
                    handed, storedSids, repliedSids, lastEmitted, sidOwner, otherVars>>

\* ------------------------------------------------------------ crash, restart
\* The host process dies with persisted state d; main() runs again: loadState,
\* then recoverPendingMessages enqueues every chat with stored messages newer
\* than its cursor (a run this starts is marked recovered), then startMessageLoop runs its first iteration before any
\* other callback gets to run.
HostRestart(d) ==
  LET enq(c) == enqueueMessageCheck(c, IdleQueue, IdleRun,
                                    d.last_agent_timestamp[c])
      rec(c) == IF getMessagesSince(c, d.last_agent_timestamp[c]) # {}
                  THEN [enq(c) EXCEPT !.run.recovered = enq(c).run.kind = "msg"]
                  ELSE [queue |-> IdleQueue, run |-> IdleRun,
                        cursor |-> d.last_agent_timestamp[c]]
      recovered == [c \in AllChats |->
                      IF c \in Chats THEN rec(c).cursor
                      ELSE d.last_agent_timestamp[c]]
      it == loopIteration(d.last_timestamp, recovered,
                          [c \in Chats |-> rec(c).queue],
                          [c \in Chats |-> rec(c).run])
  IN /\ crashes < MaxCrashes
     /\ crashes' = crashes + 1
     /\ lastTimestamp' = it.lastTimestamp
     /\ lastAgentTimestamp' = it.cursors
     /\ db' = saveState(d, it.lastTimestamp, it.cursors)
     /\ sessions' = d.sessions
     /\ run' = it.run
     /\ queue' = it.queue
     /\ dh' = [h \in 1..MaxDiscordMsgs |->
                 IF dh[h].pc = "free" THEN dh[h] ELSE [dh[h] EXCEPT !.pc = "done"]]
     /\ UNCHANGED <<store, nextSid, taskRuns, handed, failedPrompt, storedSids,
                    repliedSids, lastEmitted, sidOwner, otherVars>>

Crash == HostRestart(db)

\* A crash inside a tick, after lastTimestamp was advanced and persisted and
\* before the chats of the batch were handled.
CrashInTick ==
  LET msgs == getNewMessages(RegisteredJids, lastTimestamp)
  IN /\ msgs # {}
     /\ HostRestart(saveState(db, newTimestamp(msgs, lastTimestamp),
                              lastAgentTimestamp))

\* ------------------------------------------------------ scheduled task runs
\* The scheduler finds a due task of chat c and hands its run to the queue.
SchedulerSweep(c, mode) ==
  LET f == registeredGroups[c].folder
      next == enqueueTask(queue[c], run[c], mode, sessions[f], lastEmitted[f])
  IN /\ taskRuns < MaxTaskRuns
     /\ queue[c].pendingTask = "none"
     /\ taskRuns' = taskRuns + 1
     /\ queue' = [queue EXCEPT ![c] = next.queue]
     /\ run' = [run EXCEPT ![c] = next.run]
     /\ UNCHANGED <<store, lastTimestamp, lastAgentTimestamp, sessions, db, dh,
                    nextSid, crashes, handed, failedPrompt, storedSids, repliedSids,
                    lastEmitted, sidOwner, otherVars>>

\* The scheduled run ends; a new session id is persisted for "group" only; the
\* queue drains.
TaskExit(c, withSid) ==
  LET f == registeredGroups[c].folder
      sid == EmittedSid(withSid)
      keep == sid # NoSession /\ run[c].mode = "group"
      sess == IF keep THEN sid ELSE sessions[f]
      emitted == IF keep THEN sid ELSE lastEmitted[f]
      next == drainGroup(c, queue[c], lastAgentTimestamp[c], sess, emitted)
      cursors == [lastAgentTimestamp EXCEPT ![c] = next.cursor]
  IN /\ run[c].kind = "task"
     /\ run[c].pc = "agent"
     /\ run' = [run EXCEPT ![c] = next.run]
     /\ queue' = [queue EXCEPT ![c] = next.queue]
     /\ lastAgentTimestamp' = cursors
     /\ nextSid' = IF sid # NoSession THEN nextSid + 1 ELSE nextSid
     /\ sidOwner' = IF sid # NoSession THEN [sidOwner EXCEPT ![sid] = f] ELSE sidOwner
     /\ sessions' = [sessions EXCEPT ![f] = sess]
     /\ db' = saveState(IF keep THEN setSession(db, f, sid) ELSE db,
                        lastTimestamp, cursors)
     /\ storedSids' = IF keep THEN storedSids \cup {sid} ELSE storedSids
     /\ lastEmitted' = [lastEmitted EXCEPT ![f] = emitted]
     /\ UNCHANGED <<store, lastTimestamp, dh, crashes, taskRuns, handed, failedPrompt,
                    repliedSids, otherVars>>

\* ------------------------------------------------- processDiscordIncoming
DiscordCount == Cardinality({h \in 1..MaxDiscordMsgs : dh[h].pc # "free"})

\* A non-command message arrives: it is stored, the prompt is built from the
\* scope's cursor, setDiscordTyping(true) is awaited.
DiscordIncoming(scope) ==
  LET h == DiscordCount + 1
  IN /\ DiscordCount < MaxDiscordMsgs
     /\ Cardinality(store) < MaxMsgs
     /\ store' = store \cup {[chat |-> scope, ts |-> NextTs, trig |-> FALSE]}
     /\ dh' = [dh EXCEPT ![h] = [IdleHandling EXCEPT !.pc = "typing",
                                                     !.scope = scope, !.ts = NextTs]]
     /\ UNCHANGED <<lastTimestamp, lastAgentTimestamp, sessions, db, queue, run,
                    nextSid, crashes, taskRuns, handed, failedPrompt, storedSids,
                    repliedSids, lastEmitted, sidOwner, otherVars>>

\* The session of the 'discord' group is read and runAgent spawns the agent;
\* its process is not registered with the queue.
DiscordSpawn(h) ==
  LET f == DISCORD_GROUP.folder
  IN /\ dh[h].pc = "typing"
     /\ dh' = [dh EXCEPT ![h].pc = "agent", ![h].sid = sessions[f],
                         ![h].expected = lastEmitted[f]]
     /\ handed' = handed \cup
                    Timestamps(getMessagesSince(dh[h].scope,
                                                lastAgentTimestamp[dh[h].scope]))
     /\ UNCHANGED <<store, lastTimestamp, lastAgentTimestamp, sessions, db, queue, run,
                    nextSid, crashes, taskRuns, failedPrompt, storedSids, repliedSids,
                    lastEmitted, sidOwner, otherVars>>

\* runAgent settles with an output, or rejects (status "throw": the catch block
\* ends the handling); setDiscordTyping(false) is awaited.
DiscordAgentDone(h, status, result, withSid) ==
  LET f == DISCORD_GROUP.folder
      sid == IF status = "throw" THEN NoSession ELSE EmittedSid(withSid)
  IN /\ dh[h].pc = "agent"
     /\ status = "throw" => ~result
     /\ dh' = [dh EXCEPT ![h].pc = IF status = "throw" THEN "done" ELSE "typingOff",
                         ![h].out = [result |-> result, sid |-> sid]]
     /\ nextSid' = IF sid # NoSession THEN nextSid + 1 ELSE nextSid
     /\ sidOwner' = IF sid # NoSession THEN [sidOwner EXCEPT ![sid] = f] ELSE sidOwner
     /\ lastEmitted' = IF sid # NoSession THEN [lastEmitted EXCEPT ![f] = sid]
                       ELSE lastEmitted
     /\ UNCHANGED <<store, lastTimestamp, lastAgentTimestamp, sessions, db, queue, run,
                    crashes, taskRuns, handed, failedPrompt, storedSids, repliedSids,
                    otherVars>>

\* if (output.newSessionId) { sessions[folder] = id; setSession(folder, id) }
DiscordSession(h) ==
  LET f == DISCORD_GROUP.folder
      sid == dh[h].out.sid
  IN /\ dh[h].pc = "typingOff"
     /\ dh' = [dh EXCEPT ![h].pc = "reply"]
     /\ IF sid # NoSession
          THEN /\ sessions' = [sessions EXCEPT ![f] = sid]
               /\ db' = setSession(db, f, sid)
               /\ storedSids' = storedSids \cup {sid}
          ELSE UNCHANGED <<sessions, db, storedSids>>
     /\ UNCHANGED <<store, lastTimestamp, lastAgentTimestamp, queue, run, nextSid,
                    crashes, taskRuns, handed, failedPrompt, repliedSids, lastEmitted,
                    sidOwner, otherVars>>

\* The cursor a Discord handling writes before its reply.
discordCursor(h) == dh[h].ts

\* if (output.result) { lastAgentTimestamp[scope] = msg.timestamp; saveState();
\* await sendDiscordMessage(scope, output.result) }
DiscordReply(h) ==
  LET sid == dh[h].out.sid
      cursors == IF dh[h].out.result
                   THEN [lastAgentTimestamp EXCEPT ![dh[h].scope] = discordCursor(h)]
                   ELSE lastAgentTimestamp
  IN /\ dh[h].pc = "reply"
     /\ dh' = [dh EXCEPT ![h].pc = "done"]
     /\ lastAgentTimestamp' = cursors
     /\ db' = IF dh[h].out.result THEN saveState(db, lastTimestamp, cursors) ELSE db
     /\ repliedSids' = IF dh[h].out.result /\ sid # NoSession
                         THEN repliedSids \cup {sid} ELSE repliedSids
     /\ UNCHANGED <<store, lastTimestamp, sessions, queue, run, nextSid, crashes,
                    taskRuns, handed, failedPrompt, storedSids, lastEmitted, sidOwner,
                    otherVars>>

\* ------------------------------------------------------------ specification
Next ==
  \/ \E c \in Chats, trig \in BOOLEAN : StoreMessage(c, trig)
  \/ MessageLoopTick
  \/ \E c \in Chats : SpawnAgent(c)
  \/ \E c \in Chats, st \in {"success", "error"}, res \in BOOLEAN, ws \in BOOLEAN :
       AgentFrame(c, st, res, ws)
  \/ \E c \in Chats : CallbackSession(c)
  \/ \E c \in Chats : CallbackSend(c)
  \/ \E c \in Chats, st \in {"success", "error", "throw"}, ws \in BOOLEAN :
       AgentExit(c, st, ws)
  \/ \E c \in Chats : FinishRun(c)
  \/ \E c \in TaskChats, mode \in {"group", "isolated"} : SchedulerSweep(c, mode)
  \/ \E c \in Chats, ws \in BOOLEAN : TaskExit(c, ws)
  \/ \E scope \in DiscordScopes : DiscordIncoming(scope)
  \/ \E h \in 1..MaxDiscordMsgs : DiscordSpawn(h)
  \/ \E h \in 1..MaxDiscordMsgs, st \in {"success", "error", "throw"},
        res \in BOOLEAN, ws \in BOOLEAN : DiscordAgentDone(h, st, res, ws)
  \/ \E h \in 1..MaxDiscordMsgs : DiscordSession(h)
  \/ \E h \in 1..MaxDiscordMsgs : DiscordReply(h)
  \/ Crash
  \/ CrashInTick

Spec == Init /\ [][Next]_vars

\* -------------------------------------------------- persistent-VM mounts
MaxMounts == 2        \* additional mounts of one workspace configuration

\* Canonical host paths, as sequences of components.
HostPaths == {<<"home", "projects", "app">>, <<"home", "projects", ".ssh">>,
              <<"etc">>, <<"home">>}

\* The mount allowlist: allowedRoots, blockedPatterns.
allowedRoots == {[path |-> <<"home", "projects">>, allowReadWrite |-> TRUE]}
blockedPatterns == {".ssh"}

isPrefix(a, b) == Len(a) <= Len(b) /\ SubSeq(b, 1, Len(a)) = a

underAllowedRoot(p) == \E r \in allowedRoots : isPrefix(r.path, p)

matchesBlocked(p) == \E i \in 1..Len(p) : p[i] \in blockedPatterns

MountRequests == [hostPath : HostPaths, containerPath : {"extra"}, readonly : BOOLEAN]

RECURSIVE SeqsUpTo(_, _)
SeqsUpTo(S, n) ==
  IF n = 0 THEN {<<>>}
  ELSE SeqsUpTo(S, n - 1) \cup
       {Append(q, x) : q \in {t \in SeqsUpTo(S, n - 1) : Len(t) = n - 1}, x \in S}

\* runVibeAgent, step 4: the workspace, IPC and session mounts.
vibeBaseMounts(folder) ==
  << [hostPath |-> <<"groups", folder>>, guestPath |-> "/workspace",
      readonly |-> FALSE],
     [hostPath |-> <<"data", "ipc", folder>>, guestPath |-> "/ipc",
      readonly |-> FALSE],
     [hostPath |-> <<"data", "sessions", folder, ".claude">>,
      guestPath |-> "/home/user/.claude", readonly |-> FALSE] >>

\* runVibeAgent, step 4: every additional mount of the configuration is pushed
\* with readonly: mount.readonly || false.
vibeAdditionalMounts(additionalMounts) ==
  [i \in 1..Len(additionalMounts) |->
     [hostPath |-> additionalMounts[i].hostPath,
      guestPath |-> additionalMounts[i].containerPath,
      readonly |-> additionalMounts[i].readonly]]

\* executeVibe: --mount host:guest:mode
vibeMountArg(m) ==
  [hostPath |-> m.hostPath, guestPath |-> m.guestPath,
   mode |-> IF m.readonly THEN "read-only" ELSE "read-write"]

\* runVibeAgent for a workspace with the given additional mounts, under a mount
\* policy with the given nonMainReadOnly.
RunVibeAgent(folder, additionalMounts, nonMainReadOnly) ==
  LET ms == vibeBaseMounts(folder) \o vibeAdditionalMounts(additionalMounts)
  IN /\ mounts' = [folder |-> folder, nonMainReadOnly |-> nonMainReadOnly,
                   base |-> Len(vibeBaseMounts(folder)),
                   args |-> [i \in 1..Len(ms) |-> vibeMountArg(ms[i])]]
     /\ UNCHANGED <<routerVars, tart, shutdown, child, selector, ipc, sched, groups, loops, clones, inproc, boot, tick, timer, dc, vibe, sessOut>>

MountNext ==
  \E folder \in {"main", "g1"}, am \in SeqsUpTo(MountRequests, MaxMounts),
     ro \in BOOLEAN : RunVibeAgent(folder, am, ro)

MountSpec == Init /\ [][MountNext]_vars

\* The additional mounts among the arguments handed to the engine.
additionalArgs ==
  IF mounts = <<>> THEN {}
  ELSE {mounts.args[i] : i \in (mounts.base + 1)..Len(mounts.args)}

\* ------------------------------------------------------- one-shot VM engine
\* runTartAgent, steps 1-2: tart list, then tart clone. A missing base image or
\* a failed clone throws; a failed clone leaves no clone behind.
TartClone(f, hasImage, cloned) ==
  /\ tart[f].pc = "idle"
  /\ tart' = [tart EXCEPT ![f].pc = IF hasImage /\ cloned THEN "run" ELSE "catch",
                          ![f].clone = hasImage /\ cloned]
  /\ UNCHANGED <<routerVars, mounts, shutdown, child, selector, ipc, sched, groups, loops, clones, inproc, boot, tick, timer, dc, vibe, sessOut>>

\* Step 3: execSync(`tart run ... &`): the shell returns at once, whether or not
\* the VM comes up.
TartRun(f, boots) ==
  /\ tart[f].pc = "run"
  /\ tart' = [tart EXCEPT ![f].pc = "waitIP",
                          ![f].vm = IF boots THEN "running" ELSE "off"]
  /\ UNCHANGED <<routerVars, mounts, shutdown, child, selector, ipc, sched, groups, loops, clones, inproc, boot, tick, timer, dc, vibe, sessOut>>

\* Step 4: waitForVMIP resolves only for a running VM, else it throws on timeout.
TartWaitIP(f, ok) ==
  /\ tart[f].pc = "waitIP"
  /\ ok => tart[f].vm = "running"
  /\ tart' = [tart EXCEPT ![f].pc = IF ok THEN "ssh" ELSE "catch",
                          ![f].vmIP = ok]
  /\ UNCHANGED <<routerVars, mounts, shutdown, child, selector, ipc, sched, groups, loops, clones, inproc, boot, tick, timer, dc, vibe, sessOut>>

\* Steps 5-9: waitForSSH, the project symlink, uploadConfigs, exportEnvVars.
TartSetup(f, ok) ==
  /\ tart[f].pc = "ssh"
  /\ tart' = [tart EXCEPT ![f].pc = IF ok THEN "agent" ELSE "catch"]
  /\ UNCHANGED <<routerVars, mounts, shutdown, child, selector, ipc, sched, groups, loops, clones, inproc, boot, tick, timer, dc, vibe, sessOut>>

\* Step 10: executeAgentInVM throws on a non-zero exit code (and on a timeout).
TartAgent(f, exitZero) ==
  /\ tart[f].pc = "agent"
  /\ tart' = [tart EXCEPT ![f].pc = IF exitZero THEN "finally" ELSE "catch",
                          ![f].status = IF exitZero THEN "success" ELSE @]
  /\ UNCHANGED <<routerVars, mounts, shutdown, child, selector, ipc, sched, groups, loops, clones, inproc, boot, tick, timer, dc, vibe, sessOut>>

\* catch: the result is an error.
TartCatch(f) ==
  /\ tart[f].pc = "catch"
  /\ tart' = [tart EXCEPT ![f].pc = "finally", ![f].status = "error"]
  /\ UNCHANGED <<routerVars, mounts, shutdown, child, selector, ipc, sched, groups, loops, clones, inproc, boot, tick, timer, dc, vibe, sessOut>>

\* `tart stop` exits non-zero for a VM that is not running.
tartStopFails(t) == t.vm # "running"

\* finally: execSync(`tart stop`), inside the try that also holds the delete:
\* when it throws, the cleanup error is logged and the invocation returns.
TartStop(f) ==
  /\ tart[f].pc = "finally"
  /\ tart' = [tart EXCEPT ![f].pc = IF tartStopFails(tart[f]) THEN "returned"
                                    ELSE "delete",
                          ![f].vm = "off"]
  /\ UNCHANGED <<routerVars, mounts, shutdown, child, selector, ipc, sched, groups, loops, clones, inproc, boot, tick, timer, dc, vibe, sessOut>>

\* finally: execSync(`tart delete`), then the invocation returns.
TartDelete(f) ==
  /\ tart[f].pc = "delete"
  /\ tart' = [tart EXCEPT ![f].pc = "returned", ![f].clone = FALSE]
  /\ UNCHANGED <<routerVars, mounts, shutdown, child, selector, ipc, sched, groups, loops, clones, inproc, boot, tick, timer, dc, vibe, sessOut>>

TartNext ==
  \E f \in TartFolders :
    \/ \E hasImage \in BOOLEAN, cloned \in BOOLEAN : TartClone(f, hasImage, cloned)
    \/ \E boots \in BOOLEAN : TartRun(f, boots)
    \/ \E ok \in BOOLEAN : TartWaitIP(f, ok)
    \/ \E ok \in BOOLEAN : TartSetup(f, ok)
    \/ \E exitZero \in BOOLEAN : TartAgent(f, exitZero)
    \/ TartCatch(f)
    \/ TartStop(f)
    \/ TartDelete(f)

TartSpec == Init /\ [][TartNext]_vars

\* ------------------------------------------------------- graceful shutdown
\* SIGTERM / SIGINT: the handler calls queue.shutdown(10000) and waits for it.
\* The queue stops accepting work and half-closes every live stdin.
ShutdownSignal ==
  /\ shutdown = "running"
  /\ shutdown' = "waiting"
  /\ queue' = [c \in Chats |->
                 [queue[c] EXCEPT !.proc = IF @ = "open" THEN "closed" ELSE @]]
  /\ UNCHANGED <<store, lastTimestamp, lastAgentTimestamp, sessions, db, run, dh,
                 nextSid, crashes, taskRuns, handed, failedPrompt, storedSids,
                 repliedSids, lastEmitted, sidOwner, mounts, tart, child, selector, ipc, sched, groups, loops, clones, inproc, boot, tick, timer, dc, vibe, sessOut>>

\* An iteration of startMessageLoop while the handler waits: the loop has no
\* stop condition. It polls, advances and persists lastTimestamp and pipes to
\* a process whose stdin is open; its enqueues are refused by the queue.
TickDuringShutdown ==
  LET it == loopIteration(lastTimestamp, lastAgentTimestamp, queue, run)
      piped(c) == c \in Chats /\ it.piped[c] # {}
      cursors == [c \in AllChats |->
                    IF piped(c) THEN it.cursors[c] ELSE lastAgentTimestamp[c]]
  IN /\ shutdown = "waiting"
     /\ getNewMessages(RegisteredJids, lastTimestamp) # {}
     /\ lastTimestamp' = it.lastTimestamp
     /\ lastAgentTimestamp' = cursors
     /\ db' = saveState(db, it.lastTimestamp, cursors)
     /\ run' = [c \in Chats |-> IF piped(c) THEN it.run[c] ELSE run[c]]
     /\ handed' = handed \cup UNION {it.piped[c] : c \in Chats}
     /\ UNCHANGED <<store, sessions, queue, dh, nextSid, crashes, taskRuns,
                    failedPrompt, storedSids, repliedSids, lastEmitted, sidOwner,
                    otherVars>>

\* A run ends while the handler waits: the queue starts nothing after it.
RunEndDuringShutdown(c) ==
  /\ shutdown = "waiting"
  /\ run[c].kind = "msg"
  /\ run[c].pc = "typingOff"
  /\ lastAgentTimestamp' = [lastAgentTimestamp EXCEPT ![c] =
                              IF run[c].hadError THEN rollbackCursor(run[c]) ELSE @]
  /\ db' = saveState(db, lastTimestamp, lastAgentTimestamp')
  /\ run' = [run EXCEPT ![c] = IdleRun]
  /\ queue' = [queue EXCEPT ![c] = IdleQueue]
  /\ UNCHANGED <<store, lastTimestamp, sessions, dh, nextSid, crashes, taskRuns,
                 handed, failedPrompt, storedSids, repliedSids, lastEmitted,
                 sidOwner, otherVars>>

\* queue.shutdown returned (every run ended, or the grace window passed and the
\* children were killed): disconnect and process.exit(0).
ShutdownExit ==
  /\ shutdown = "waiting"
  /\ shutdown' = "exited"
  /\ UNCHANGED <<routerVars, mounts, tart, child, selector, ipc, sched, groups, loops, clones, inproc, boot, tick, timer, dc, vibe, sessOut>>

ShutdownNext ==
  \/ /\ shutdown # "exited"
     /\ \/ \E c \in Chats, trig \in BOOLEAN : StoreMessage(c, trig)
        \/ \E c \in Chats : SpawnAgent(c)
        \/ \E c \in Chats, st \in {"success", "error"} : AgentExit(c, st, FALSE)
  \/ /\ shutdown = "running"
     /\ \/ MessageLoopTick
        \/ \E c \in Chats : FinishRun(c)
  \/ ShutdownSignal
  \/ TickDuringShutdown
  \/ \E c \in Chats : RunEndDuringShutdown(c)
  \/ ShutdownExit

ShutdownSpec == Init /\ [][ShutdownNext]_vars

\* ---------------------------------------------- child processes of engines
MaxChunk == 2         \* longest chunk of output the child writes at once
MaxOutput == 3        \* most output the child writes to one stream

\* CONTAINER_MAX_OUTPUT_SIZE, scaled down.
CONTAINER_MAX_OUTPUT_SIZE == 2

\* runOpenCodeAgent, executeSSH (the one-shot VM) and executeVibe.
Engines == {"opencode", "ssh", "vibe"}

\* All but child.
notChild == <<routerVars, mounts, tart, shutdown, selector, ipc, sched, groups, loops, clones, inproc, boot, tick, timer, dc, vibe, sessOut>>

ChildSpawn(e) ==
  /\ child.pc = "idle"
  /\ child' = [child EXCEPT !.engine = e, !.pc = "running"]
  /\ UNCHANGED notChild

\* The on('data') handlers: what is captured, [len, truncated], after a chunk
\* of length n. runOpenCodeAgent cuts at the cap; executeSSH and executeVibe
\* append the whole chunk.
capture(e, len, truncated, n) ==
  IF e = "opencode"
    THEN IF truncated THEN [len |-> len, truncated |-> TRUE]
         ELSE IF n > CONTAINER_MAX_OUTPUT_SIZE - len
           THEN [len |-> CONTAINER_MAX_OUTPUT_SIZE, truncated |-> TRUE]
           ELSE [len |-> len + n, truncated |-> FALSE]
    ELSE [len |-> len + n, truncated |-> FALSE]

\* The reasons of a step_finish event on which runOpenCodeAgent ends the child
\* ("none": the chunk holds no such event).
DoneReasons == {"none", "stop", "error"}

\* A chunk on stdout. For runOpenCodeAgent a chunk read before truncation may
\* hold the step_finish event, after which SIGTERM is sent.
ChildStdout(n, done) ==
  LET got == capture(child.engine, child.stdout, child.stdoutTruncated, n)
      sees == done # "none" /\ child.engine = "opencode" /\ ~child.stdoutTruncated
                   /\ ~child.doneSeen
  IN /\ child.pc = "running"
     /\ child.stdout + n <= MaxOutput \/ child.stdoutTruncated
     /\ done # "none" => sees
     /\ child' = [child EXCEPT
                    !.stdout = got.len, !.stdoutTruncated = got.truncated,
                    !.doneSeen = @ \/ sees,
                    !.doneReason = IF sees THEN done ELSE @,
                    !.signals = IF sees
                                  THEN Append(@, [sig |-> "SIGTERM", by |-> "done"])
                                  ELSE @]
     /\ UNCHANGED notChild

ChildStderr(n) ==
  LET got == capture(child.engine, child.stderr, child.stderrTruncated, n)
  IN /\ child.pc = "running"
     /\ child.stderr + n <= MaxOutput \/ child.stderrTruncated
     /\ child' = [child EXCEPT !.stderr = got.len, !.stderrTruncated = got.truncated]
     /\ UNCHANGED notChild

settleLast(c, status) == status

\* A resolve that is lost.
settleNever(c, status) == c.settled

\* A promise settles once: later resolve / reject calls change nothing.
settle(c, status) == IF c.settled = "none" THEN status ELSE c.settled

\* The timeout callback: proc.kill('SIGKILL'), then the run is settled as an
\* error (resolve for runOpenCodeAgent, reject caught by the runner otherwise).
ChildTimeout ==
  /\ child.pc = "running"
  /\ child' = [child EXCEPT
                 !.pc = "killed", !.timedOut = TRUE,
                 !.signals = Append(@, [sig |-> "SIGKILL", by |-> "timeout"]),
                 !.settled = settle(child, "error"),
                 !.rejected = @ \/ (child.settled = "none" /\ child.engine # "opencode")]
  /\ UNCHANGED notChild

\* on('error'): the child could not be spawned or could not be killed. The
\* timer is cleared and the run is settled as an error (resolve for
\* runOpenCodeAgent, reject otherwise). A close event may or may not follow.
ChildError ==
  /\ child.pc = "running"
  /\ child' = [child EXCEPT
                 !.pc = "errored", !.errored = TRUE,
                 !.settled = settle(child, "error"),
                 !.rejected = @ \/ (child.settled = "none" /\ child.engine # "opencode")]
  /\ UNCHANGED notChild

\* The final result on('close') computes from the exit code ("null": ended by a
\* signal). runOpenCodeAgent: an error unless the code is 0 or null and a
\* response text was found. executeSSH / executeVibe: exitCode = code || 0, and
\* the runner reports an error unless that is 0.
closeStatus(e, code, hasText) ==
  IF e = "opencode"
    THEN IF code \notin {"0", "null"} THEN "error"
         ELSE IF hasText THEN "success" ELSE "error"
    ELSE IF code = "1" THEN "error" ELSE "success"

ChildClose(code, hasText) ==
  /\ child.pc \in {"running", "killed", "errored"}
  /\ child.pc = "killed" => code = "null"
  /\ hasText => child.stdout > 0
  /\ child' = [child EXCEPT
                 !.pc = "closed", !.code = code,
                 !.settled = settle(child, closeStatus(child.engine, code, hasText))]
  /\ UNCHANGED notChild

ChildNext ==
  \/ \E e \in Engines : ChildSpawn(e)
  \/ \E n \in 1..MaxChunk, done \in DoneReasons : ChildStdout(n, done)
  \/ \E n \in 1..MaxChunk : ChildStderr(n)
  \/ ChildTimeout
  \/ ChildError
  \/ \E code \in {"0", "1", "null"}, hasText \in BOOLEAN : ChildClose(code, hasText)

ChildSpec == Init /\ [][ChildNext]_vars

\* setTimeout(..., timeoutMs): a pending timer fires.
ChildLiveSpec == ChildSpec /\ WF_vars(ChildTimeout)

\* ------------------------------------------------------- runtime selection
\* The agent CLIs the '!runtime' command accepts.
AgentRuntimes == {"claude", "codex", "opencode"}

\* Sandbox engines that resolve the agent CLI for a run.
SandboxEngines == {"container", "tart", "vibe"}

notSelector == <<routerVars, mounts, tart, shutdown, child, ipc, sched, groups, loops, clones, inproc, boot, tick, timer, dc, vibe, sessOut>>

\* The process starts with AGENT_RUNTIME set or not; the settings row is
\* whatever an earlier process left in the store.
RuntimeBoot(env, row) ==
  /\ ~selector.booted
  /\ selector' = [selector EXCEPT !.booted = TRUE, !.env = env, !.setting = row]
  /\ UNCHANGED notSelector

\* '!runtime claude|codex|opencode': setSetting('agent_runtime', cmd).
RuntimeCommand(cmd) ==
  /\ selector.booted
  /\ selector' = [selector EXCEPT !.setting = cmd]
  /\ UNCHANGED notSelector

\* getAgentRuntime of tart-runner.ts and of vibe-runner.ts: the workspace's
\* containerConfig.env.AGENT_RUNTIME, else process.env.AGENT_RUNTIME, else
\* 'claude'. The settings row is not read.
getAgentRuntime(cfg, env) ==
  IF cfg # Unset THEN cfg ELSE IF env # Unset THEN env ELSE "claude"

\* The container engine's selection: workspace, settings row, environment,
\* default.
containerAgentRuntime(cfg, setting, env) ==
  IF cfg # Unset THEN cfg
  ELSE IF setting # Unset THEN setting
  ELSE IF env # Unset THEN env ELSE "claude"

\* A run of a workspace whose own override is cfg, on the given engine.
EngineRun(engine, cfg) ==
  /\ selector.booted
  /\ selector' = [selector EXCEPT !.last =
       [engine |-> engine, cfg |-> cfg, setting |-> selector.setting,
        used |-> IF engine = "container"
                   THEN containerAgentRuntime(cfg, selector.setting, selector.env)
                   ELSE getAgentRuntime(cfg, selector.env)]]
  /\ UNCHANGED notSelector

RuntimeNext ==
  \/ \E env \in AgentRuntimes \cup {Unset}, row \in AgentRuntimes \cup {Unset} :
       RuntimeBoot(env, row)
  \/ \E cmd \in AgentRuntimes : RuntimeCommand(cmd)
  \/ \E engine \in SandboxEngines, cfg \in AgentRuntimes \cup {Unset} :
       EngineRun(engine, cfg)

RuntimeSpec == Init /\ [][RuntimeNext]_vars

\* ------------------------------------------------------------ IPC dispatcher
MaxIpcFiles == 2      \* request files written in all
MaxIpcTasks == 2      \* tasks created through IPC

\* Workspaces with an IPC directory: the privileged one and two others.
IpcFolders == {MAIN_GROUP_FOLDER, "g1", "g2"}

\* chatId of the workspace registered with the folder.
chatIdOf(folder) ==
  CASE folder = MAIN_GROUP_FOLDER -> "main@jid"
    [] folder = "g1" -> "g1@jid"
    [] OTHER -> "g2@jid"

IpcChats == {chatIdOf(f) : f \in IpcFolders}

\* What a file may say about its origin: for every directory one of these is
\* another workspace.
IpcSources == {MAIN_GROUP_FOLDER, "g1"}

\* Request files an agent can write. sourceGroup is what the file says about
\* its origin; target is chatJid of a message, groupFolder of schedule_task,
\* taskId of cancel_task.
IpcRequests ==
  [type : {"message"}, sourceGroup : IpcSources, target : IpcChats]
  \cup [type : {"schedule_task"}, sourceGroup : IpcSources, target : IpcFolders]
  \cup [type : {"cancel_task"}, sourceGroup : IpcSources, target : 1..MaxIpcTasks]
  \cup [type : {"register_group", "refresh_groups"}, sourceGroup : IpcSources,
        target : {"-"}]

\* Files: named by the order of writing, in a workspace's directory.
IpcFiles == [name : 1..MaxIpcFiles, dir : IpcFolders, req : IpcRequests]

notIpc == <<routerVars, mounts, tart, shutdown, child, selector, sched, groups, loops, clones, inproc, boot, tick, timer, dc, vibe, sessOut>>

\* The agent of a workspace writes a file into its own IPC directory.
IpcWrite(dir, req) ==
  /\ ipc.written < MaxIpcFiles
  /\ ipc' = [ipc EXCEPT !.files = @ \cup {[name |-> ipc.written + 1,
                                            dir |-> dir, req |-> req]},
                        !.written = @ + 1]
  /\ UNCHANGED notIpc

originFromPayload(file) == file.req.sourceGroup

\* Step 2: the originating workspace is the directory's folder.
originatingWorkspace(file) == file.dir

isPrivileged(folder) == folder = MAIN_GROUP_FOLDER

\* group_folder of the task a cancel_task names, "-" when there is none.
taskFolder(id) ==
  IF \E t \in ipc.tasks : t.id = id
    THEN (CHOOSE t \in ipc.tasks : t.id = id).group_folder
    ELSE "-"

\* The request names something that exists.
ipcValid(req) ==
  /\ req.type = "cancel_task" => taskFolder(req.target) # "-"
  /\ req.type = "schedule_task" => ipc.nextTask <= MaxIpcTasks

authorizeAll(source, req) == TRUE

\* Step 3: what a workspace may ask for.
authorize(source, req) ==
  CASE req.type = "message" ->
         req.target = chatIdOf(source) \/ isPrivileged(source)
    [] req.type = "schedule_task" ->
         req.target = source \/ isPrivileged(source)
    [] req.type = "cancel_task" ->
         taskFolder(req.target) = source \/ isPrivileged(source)
    [] OTHER -> isPrivileged(source)

\* Step 4 for an accepted request.
ipcEffect(source, req) ==
  CASE req.type = "message" ->
         [ipc EXCEPT !.sent = @ \cup {[chatJid |-> req.target, by |-> source]}]
    [] req.type = "schedule_task" ->
         [ipc EXCEPT !.tasks = @ \cup {[id |-> ipc.nextTask,
                                        group_folder |-> req.target,
                                        chat |-> chatIdOf(req.target),
                                        status |-> "active", by |-> source]},
                     !.nextTask = @ + 1]
    [] req.type = "cancel_task" ->
         [ipc EXCEPT !.tasks = {IF t.id = req.target
                                  THEN [t EXCEPT !.status = "cancelled", !.by = source]
                                  ELSE t : t \in ipc.tasks}]
    [] req.type = "register_group" ->
         [ipc EXCEPT !.registered = @ \cup {source}]
    [] OTHER -> [ipc EXCEPT !.refreshed = @ \cup {source}]

moveToErrorsApplied(file) ==
  [ipcEffect(file.dir, file.req) EXCEPT !.errors = @ \cup {file}]

\* Step 4 for a refused request: the file goes to ipc/errors.
moveToErrors(file) == [ipc EXCEPT !.errors = @ \cup {file}]

\* The dispatcher handles one file: accepted and deleted, or moved to errors.
IpcProcess(file) ==
  LET source == originatingWorkspace(file)
      ok == ipcValid(file.req) /\ authorize(source, file.req)
      done == IF ok THEN ipcEffect(source, file.req) ELSE moveToErrors(file)
  IN /\ file \in ipc.files
     /\ ipc' = [done EXCEPT
                  !.files = @ \ {file},
                  !.log = @ \cup {[name |-> file.name,
                                   dir |-> file.dir, req |-> file.req,
                                   by |-> source, allowed |-> ok,
                                   valid |-> ipcValid(file.req),
                                   taskFolder |-> IF file.req.type = "cancel_task"
                                                    THEN taskFolder(file.req.target)
                                                    ELSE "-"]}]
     /\ UNCHANGED notIpc

IpcNext ==
  \/ \E dir \in IpcFolders, req \in IpcRequests : IpcWrite(dir, req)
  \/ \E file \in IpcFiles : IpcProcess(file)

IpcSpec == Init /\ [][IpcNext]_vars

\* ---------------------------------------------------------------- scheduler
MaxNow == 5           \* clock readings 0..MaxNow
MaxInterval == 2      \* longest interval of an interval task

\* Cron expressions, each standing for "every k-th clock reading".
CronPeriods == {2}

notSched == <<routerVars, mounts, tart, shutdown, child, selector, ipc, groups, loops, clones, inproc, boot, tick, timer, dc, vibe, sessOut>>

\* cron: the next matching time strictly after now.
cronNext(k, now) == ((now \div k) + 1) * k

\* The first nextRun of a task created at now.
firstRun(type, value, now) ==
  CASE type = "once" -> value
    [] type = "interval" -> now + value
    [] OTHER -> cronNext(value, now)

SchedClock ==
  /\ sched.now < MaxNow
  /\ sched' = [sched EXCEPT !.now = @ + 1]
  /\ UNCHANGED notSched

\* schedule_task: a new row, active.
SchedCreate(id, type, value) ==
  /\ id \notin sched.used
  /\ sched' = [sched EXCEPT
                 !.used = @ \cup {id},
                 !.tasks[id] = [scheduleType |-> type, scheduleValue |-> value,
                                status |-> "active",
                                nextRun |-> firstRun(type, value, sched.now),
                                lastRun |-> Null, lastResult |-> "none"]]
  /\ UNCHANGED notSched

\* pause_task / resume_task: the status of an existing row.
SchedPause(id) ==
  /\ sched.tasks[id].status = "active"
  /\ sched' = [sched EXCEPT !.tasks[id].status = "paused"]
  /\ UNCHANGED notSched

SchedResume(id) ==
  /\ sched.tasks[id].status = "paused"
  /\ sched' = [sched EXCEPT !.tasks[id].status = "active"]
  /\ UNCHANGED notSched

\* cancel_task or a deletion: the row is removed.
SchedCancel(id) ==
  /\ sched.tasks[id].status # "absent"
  /\ sched' = [sched EXCEPT !.tasks[id] = NoTask]
  /\ UNCHANGED notSched

\* DueTasks(now): status = 'active' and nextRun <= now.
DueTasks(tasks, now) ==
  {id \in SchedTaskIds :
     /\ tasks[id].status = "active"
     /\ tasks[id].nextRun # Null
     /\ tasks[id].nextRun <= now}

\* The run of task id starts at now.
startRun(sc, id) ==
  [sc EXCEPT !.live = id, !.liveAt = sc.now, !.queued = @ \ {id},
             !.started[id] = @ + 1]

\* A sweep: every due task is injected through the group queue, which starts a
\* run when the workspace is free and holds the task otherwise.
SchedSweep ==
  LET due == DueTasks(sched.tasks, sched.now)
      first == CHOOSE id \in due : \A o \in due : id <= o
  IN /\ due # {}
     /\ sched' = IF sched.live = 0
                   THEN startRun([sched EXCEPT !.queued = @ \cup due], first)
                   ELSE [sched EXCEPT !.queued = @ \cup due]
     /\ UNCHANGED notSched

updateTaskAfterRunUpsert(tasks, id, now, result) ==
  [tasks EXCEPT ![id] = [@ EXCEPT !.status = "completed", !.lastRun = now,
                                  !.lastResult = result]]

\* Steps 6 and 7: the result update of a run that ended at now. A row that is
\* gone is left alone; a once task is completed with no nextRun; a recurring
\* task gets its next fire time.
updateTaskAfterRun(tasks, id, now, result) ==
  LET t == tasks[id]
  IN IF t.status = "absent" THEN tasks
     ELSE [tasks EXCEPT ![id] =
            [t EXCEPT
               !.lastRun = now, !.lastResult = result,
               !.nextRun = CASE t.scheduleType = "once" -> Null
                             [] t.scheduleType = "interval" -> now + t.scheduleValue
                             [] OTHER -> cronNext(t.scheduleValue, now),
               !.status = IF t.scheduleType = "once" THEN "completed" ELSE @]]

\* The live run ends after some time: the run log gets its entry, the task its
\* result update, and the queue starts the next waiting task.
SchedRunEnd(result, next) ==
  LET id == sched.live
      ended == [sched EXCEPT
                  !.live = 0,
                  !.runLog = @ \cup {[taskId |-> id, runAt |-> sched.liveAt,
                                      n |-> sched.started[id], status |-> result,
                                      updated |-> sched.tasks[id].status # "absent"]},
                  !.tasks = updateTaskAfterRun(@, id, sched.now, result)]
  IN /\ id # 0
     /\ sched.now > sched.liveAt
     /\ IF sched.queued = {} THEN next = 0 ELSE next \in sched.queued
     /\ sched' = IF next = 0 THEN ended ELSE startRun(ended, next)
     /\ UNCHANGED notSched

SchedNext ==
  \/ SchedClock
  \/ \E id \in SchedTaskIds :
       \/ \E value \in 0..1 : SchedCreate(id, "once", value)
       \/ \E value \in 1..MaxInterval : SchedCreate(id, "interval", value)
       \/ \E value \in CronPeriods : SchedCreate(id, "cron", value)
  \/ \E id \in SchedTaskIds : SchedPause(id)
  \/ \E id \in SchedTaskIds : SchedResume(id)
  \/ \E id \in SchedTaskIds : SchedCancel(id)
  \/ SchedSweep
  \/ \E result \in {"success", "error"}, next \in {0} \cup SchedTaskIds :
       SchedRunEnd(result, next)

SchedSpec == Init /\ [][SchedNext]_vars

\* ------------------------------------------------------- group registration
\* Folders a registration can name.
GroupFolders == {MAIN_GROUP_FOLDER, "g1", "discord"}

notGroups == <<routerVars, mounts, tart, shutdown, child, selector, ipc, sched, loops, clones, inproc, boot, tick, timer, dc, vibe, sessOut>>

\* setRegisteredGroup: one row per chat; a folder another chat's row holds is
\* a uniqueness conflict and the row is not written.
setRegisteredGroup(rows, jid, folder) ==
  IF \E o \in GroupJids \ {jid} : rows[o] = folder THEN rows
  ELSE [rows EXCEPT ![jid] = folder]

\* registerGroup: registeredGroups[jid] = group, then the row is stored.
registerGroup(g, jid, folder) ==
  [g EXCEPT !.mem[jid] = folder, !.db = setRegisteredGroup(@, jid, folder)]

\* loadState at a start of the process: registeredGroups is read from the
\* store and the 'discord' group is registered when it is missing.
LoadGroups ==
  LET loaded == [groups EXCEPT !.booted = TRUE, !.mem = groups.db]
  IN /\ groups' = IF loaded.mem["discord"] = NoFolder
                    THEN registerGroup(loaded, "discord", DISCORD_GROUP.folder)
                    ELSE loaded
     /\ UNCHANGED notGroups

\* A registration while the process runs (register_group from the privileged
\* workspace).
RegisterGroup(jid, folder) ==
  /\ groups.booted
  /\ groups' = registerGroup(groups, jid, folder)
  /\ UNCHANGED notGroups

GroupsNext ==
  \/ LoadGroups
  \/ \E jid \in GroupJids, folder \in GroupFolders : RegisterGroup(jid, folder)

GroupsSpec == Init /\ [][GroupsNext]_vars

\* ------------------------------------------------------- message loop start
MaxLoopCalls == 3     \* calls of startMessageLoop
MaxPolls == 8         \* polls counted

notLoops == <<routerVars, mounts, tart, shutdown, child, selector, ipc, sched, groups, clones, inproc, boot, tick, timer, dc, vibe, sessOut>>

startMessageLoopUnguarded(l) ==
  [l EXCEPT !.calls = @ + 1, !.messageLoopRunning = TRUE, !.pc[l.calls + 1] = "poll"]

\* startMessageLoop up to its first poll: a call that finds messageLoopRunning
\* set returns; otherwise the flag is set and the loop is entered. There is no
\* await between the test and the assignment.
startMessageLoop(l) ==
  IF l.messageLoopRunning
    THEN [l EXCEPT !.calls = @ + 1]
    ELSE [l EXCEPT !.calls = @ + 1, !.messageLoopRunning = TRUE,
                   !.pc[l.calls + 1] = "poll"]

StartMessageLoop ==
  /\ loops.calls < MaxLoopCalls
  /\ loops' = startMessageLoop(loops)
  /\ UNCHANGED notLoops

\* The body of while (true): the poll either completes or throws into the
\* catch; both reach the sleep.
LoopPoll(i, throws) ==
  /\ loops.pc[i] = "poll"
  /\ loops' = [loops EXCEPT !.pc[i] = IF throws THEN "caught" ELSE "sleep",
                            !.polls = IF @ < MaxPolls THEN @ + 1 ELSE @]
  /\ UNCHANGED notLoops

\* The catch logs the error (errors counts the log lines).
LoopCatch(i) ==
  /\ loops.pc[i] = "caught"
  /\ loops' = [loops EXCEPT !.pc[i] = "sleep",
                            !.errors = IF @ < MaxPolls THEN @ + 1 ELSE @]
  /\ UNCHANGED notLoops

\* POLL_INTERVAL has passed: the next iteration.
LoopWake(i) ==
  /\ loops.pc[i] = "sleep"
  /\ loops' = [loops EXCEPT !.pc[i] = "poll"]
  /\ UNCHANGED notLoops

LoopNext ==
  \/ StartMessageLoop
  \/ \E i \in 1..MaxLoopCalls, throws \in BOOLEAN : LoopPoll(i, throws)
  \/ \E i \in 1..MaxLoopCalls : LoopCatch(i)
  \/ \E i \in 1..MaxLoopCalls : LoopWake(i)

LoopSpec == Init /\ [][LoopNext]_vars

\* ------------------------------------------------------------- clone names
MaxCloneRuns == 3     \* calls of runTartAgent
MaxCloneNow == 2      \* readings of Date.now()

\* Workspaces whose runs go through the group queue, and the 'discord'
\* workspace, whose runs are started for every inbound message.
CloneFolders == {"g1", DISCORD_GROUP.folder}

notClones == <<routerVars, mounts, tart, shutdown, child, selector, ipc, sched, groups, loops, inproc, boot, tick, timer, dc, vibe, sessOut>>

\* `nanoclaw-${group.folder}-${Date.now()}`
vmName(folder, now) == <<folder, now>>

inProgress(r) == r.pc \in {"cloned", "failed", "cleanup"}

CloneClock ==
  /\ clones.now < MaxCloneNow
  /\ clones' = [clones EXCEPT !.now = @ + 1]
  /\ UNCHANGED notClones

\* runTartAgent up to tart clone: the name is taken from the clock; tart clone
\* fails when a VM of that name exists. A queued workspace has no other run in
\* progress; 'discord' may have.
CloneBegin(i, folder) ==
  LET name == vmName(folder, clones.now)
  IN /\ clones.runs[i].pc = "none"
     /\ \A j \in 1..(i - 1) : clones.runs[j].pc # "none"
     /\ folder # DISCORD_GROUP.folder =>
          \A j \in DOMAIN clones.runs :
            inProgress(clones.runs[j]) => clones.runs[j].folder # folder
     /\ clones' = [clones EXCEPT
                     !.runs[i] = [pc |-> IF name \in clones.disk THEN "failed"
                                         ELSE "cloned",
                                  folder |-> folder, vmName |-> name],
                     !.disk = @ \cup {name}]
     /\ UNCHANGED notClones

\* The agent has run (or a step threw): the finally block is entered.
CloneFinish(i) ==
  /\ clones.runs[i].pc \in {"cloned", "failed"}
  /\ clones' = [clones EXCEPT !.runs[i].pc = "cleanup"]
  /\ UNCHANGED notClones

\* finally: tart stop and tart delete of the run's vmName.
CloneCleanup(i) ==
  /\ clones.runs[i].pc = "cleanup"
  /\ clones' = [clones EXCEPT !.runs[i].pc = "done",
                              !.disk = @ \ {clones.runs[i].vmName}]
  /\ UNCHANGED notClones

CloneNext ==
  \/ CloneClock
  \/ \E i \in 1..MaxCloneRuns, folder \in CloneFolders : CloneBegin(i, folder)
  \/ \E i \in 1..MaxCloneRuns : CloneFinish(i)
  \/ \E i \in 1..MaxCloneRuns : CloneCleanup(i)

CloneSpec == Init /\ [][CloneNext]_vars

\* ------------------------------------------------ in-process CLI directory

notInproc == <<routerVars, mounts, tart, shutdown, child, selector, ipc, sched, groups, loops, clones, boot, tick, timer, dc, vibe, sessOut>>

\* path.join(GROUPS_DIR, group.folder)
groupDir(folder) == <<"groups", folder>>

\* path.join(DATA_DIR, 'ipc', group.folder)
groupIpcDir(folder) == <<"data", "ipc", folder>>

\* process.cwd() of the host process.
processCwd == <<"nanoclaw">>

\* The text '$NANOCLAW_IPC_DIR' that the prompt carries when the variable is unset.
ipcDirLiteral == <<"$NANOCLAW_IPC_DIR">>

\* process.env.NANOCLAW_GROUP_DIR || process.cwd()
spawnCwd(e) ==
  IF e.NANOCLAW_GROUP_DIR # NoDir THEN e.NANOCLAW_GROUP_DIR ELSE processCwd

\* process.env.NANOCLAW_IPC_DIR || '$NANOCLAW_IPC_DIR'
promptIpcDir(e) ==
  IF e.NANOCLAW_IPC_DIR # NoDir THEN e.NANOCLAW_IPC_DIR ELSE ipcDirLiteral

\* The two assignments to process.env for workspace f.
setDirs(e, f) ==
  [e EXCEPT !.NANOCLAW_GROUP_DIR = groupDir(f), !.NANOCLAW_IPC_DIR = groupIpcDir(f)]

\* Setup of an in-process run for workspace f: its directories are put in the
\* process-wide variables. The spawn is a later step.
InprocSetup(f) ==
  /\ inproc.pc[f] = "idle"
  /\ inproc' = [setDirs(inproc, f) EXCEPT !.pc[f] = "ready"]
  /\ UNCHANGED notInproc

\* runOpenCodeAgent: the agent CLI is spawned with the directories that the
\* process-wide variables hold at that time; group.folder is not used.
runOpenCodeAgent(f) ==
  /\ inproc.pc[f] = "ready"
  /\ inproc' = [inproc EXCEPT !.pc[f] = "spawned",
                              !.cwd[f] = spawnCwd(inproc),
                              !.ipcDir[f] = promptIpcDir(inproc)]
  /\ UNCHANGED notInproc

\* The agent CLI of workspace f exits; process.env is left as it is.
InprocClose(f) ==
  /\ inproc.pc[f] = "spawned"
  /\ inproc' = [inproc EXCEPT !.pc[f] = "idle", !.cwd[f] = NoDir, !.ipcDir[f] = NoDir]
  /\ UNCHANGED notInproc

\* runTartAgent steps 1 to 8 for workspace f: clone, boot and uploads, each awaited.
TartBoot(f) ==
  /\ inproc.pc[f] = "idle"
  /\ inproc' = [inproc EXCEPT !.pc[f] = "vmBoot"]
  /\ UNCHANGED notInproc

\* runTartAgent step 9: the directories of f are put in the process-wide
\* variables, then the agent is awaited in the VM.
TartSetDirs(f) ==
  /\ inproc.pc[f] = "vmBoot"
  /\ inproc' = [setDirs(inproc, f) EXCEPT !.pc[f] = "vmRun"]
  /\ UNCHANGED notInproc

\* runTartAgent returns; the variables keep the directories of f.
TartReturn(f) ==
  /\ inproc.pc[f] = "vmRun"
  /\ inproc' = [inproc EXCEPT !.pc[f] = "idle"]
  /\ UNCHANGED notInproc

InprocNext ==
  \/ \E f \in EnvFolders : InprocSetup(f)
  \/ \E f \in EnvFolders : runOpenCodeAgent(f)
  \/ \E f \in EnvFolders : InprocClose(f)
  \/ \E f \in EnvFolders : TartBoot(f)
  \/ \E f \in EnvFolders : TartSetDirs(f)
  \/ \E f \in EnvFolders : TartReturn(f)

InprocSpec == Init /\ [][InprocNext]_vars


\* ------------------------------------------------------------- loadState
MaxBootTs == 1        \* largest timestamp a cursor takes

notBoot == <<routerVars, mounts, tart, shutdown, child, selector, ipc, sched, groups, loops, clones, inproc, tick, timer, dc, vibe, sessOut>>

\* getRouterState('last_timestamp') || ''
orEmpty(v) == IF v = Null THEN EmptyTs ELSE v

\* m with m[c] = ts
withKey(m, c, ts) ==
  [k \in DOMAIN m \cup {c} |-> IF k = c THEN ts ELSE m[k]]

\* loadState with every field reset when last_agent_timestamp does not parse.
loadStateResetAll(b) ==
  LET agentTs == b.db.last_agent_timestamp
      corrupted == agentTs.kind = "invalid"
  IN [b EXCEPT !.up = TRUE, !.warned = corrupted,
               !.lastTimestamp = IF corrupted THEN EmptyTs
                                 ELSE orEmpty(b.db.last_timestamp),
               !.lastAgentTimestamp = IF agentTs.kind = "object" THEN agentTs.value
                                      ELSE EmptyMap,
               !.sessions = IF corrupted THEN [f \in BootChats |-> NoSession]
                            ELSE b.db.sessions,
               !.registeredGroups = b.db.groups \cup {"discord"},
               !.db.groups = @ \cup {"discord"}]

\* loadState: agentTs ? JSON.parse(agentTs) : {}, and {} with a warning when
\* JSON.parse throws; the 'discord' group is registered when it is missing.
loadState(b) ==
  LET agentTs == b.db.last_agent_timestamp
  IN [b EXCEPT !.up = TRUE, !.warned = agentTs.kind = "invalid",
               !.lastTimestamp = orEmpty(b.db.last_timestamp),
               !.lastAgentTimestamp = IF agentTs.kind = "object" THEN agentTs.value
                                      ELSE EmptyMap,
               !.sessions = b.db.sessions,
               !.registeredGroups = b.db.groups \cup {"discord"},
               !.db.groups = @ \cup {"discord"}]

\* main: initDatabase, loadState.
LoadState ==
  /\ ~boot.up
  /\ boot' = loadState(boot)
  /\ UNCHANGED notBoot

\* The running router moves a cursor: the assignment and saveState().
BootSaveState(ts, c, cur) ==
  LET agentTs == withKey(boot.lastAgentTimestamp, c, cur)
  IN /\ boot.up
     /\ boot' = [boot EXCEPT !.lastTimestamp = ts, !.lastAgentTimestamp = agentTs,
                             !.db.last_timestamp = ts,
                             !.db.last_agent_timestamp = jsonObject(agentTs)]
     /\ UNCHANGED notBoot

\* The running router stores a session: the assignment and setSession().
BootSetSession(f, sid) ==
  /\ boot.up
  /\ boot' = [boot EXCEPT !.sessions[f] = sid, !.db.sessions[f] = sid]
  /\ UNCHANGED notBoot

\* The process ends; the store stays.
BootExit ==
  /\ boot.up
  /\ boot' = [IdleBoot EXCEPT !.db = boot.db]
  /\ UNCHANGED notBoot

\* The last_agent_timestamp row is damaged while the process is down.
BootDamage ==
  /\ ~boot.up
  /\ boot.db.last_agent_timestamp # InvalidJson
  /\ boot' = [boot EXCEPT !.db.last_agent_timestamp = InvalidJson]
  /\ UNCHANGED notBoot

BootNext ==
  \/ LoadState
  \/ \E ts \in 0..MaxBootTs, c \in BootChats, cur \in 0..MaxBootTs :
       BootSaveState(ts, c, cur)
  \/ \E f \in BootChats, sid \in 0..1 : BootSetSession(f, sid)
  \/ BootExit
  \/ BootDamage

BootSpec == Init /\ [][BootNext]_vars

\* ------------------------------------------------- one message-loop iteration
MaxTickPolls == 2     \* iterations that found messages

notTick == <<routerVars, mounts, tart, shutdown, child, selector, ipc, sched, groups, loops, clones, inproc, boot, timer, dc, vibe, sessOut>>

\* needsTrigger && !hasTrigger: the chat is passed over.
tickPasses(c, trig) == c = MAIN_GROUP_FOLDER \/ ~REQUIRE_TRIGGER \/ trig[c]

\* onMessage: a message of chat c is stored while the loop sleeps.
TickStore(c, isTrigger) ==
  /\ tick.phase = "sleep"
  /\ tick.polls < MaxTickPolls
  /\ tick' = [tick EXCEPT
                !.fresh = IF \E i \in DOMAIN tick.fresh : tick.fresh[i] = c
                            THEN @ ELSE Append(@, c),
                !.trig[c] = @ \/ isTrigger]
  /\ UNCHANGED notTick

\* getNewMessages found messages: lastTimestamp = newTimestamp; saveState(),
\* and messagesByGroup is built in arrival order.
TickPoll ==
  /\ tick.phase = "sleep"
  /\ tick.fresh # <<>>
  /\ tick' = [tick EXCEPT !.phase = "handling", !.polls = @ + 1,
                          !.fresh = <<>>, !.trig = [c \in TickChats |-> FALSE],
                          !.batch = tick.fresh, !.batchTrig = tick.trig,
                          !.pos = 1, !.threw = 0,
                          !.outcome = [c \in TickChats |-> "none"]]
  /\ UNCHANGED notTick

\* The body of the for loop for the chat at pos: passed over without a
\* trigger, piped when queue.sendMessage returns true, enqueued otherwise.
TickHandle(sent) ==
  LET c == tick.batch[tick.pos]
  IN /\ tick.phase = "handling"
     /\ tick.pos <= Len(tick.batch)
     /\ tick' = [tick EXCEPT
                   !.pos = @ + 1,
                   !.outcome[c] = IF ~tickPasses(c, tick.batchTrig) THEN "passedOver"
                                  ELSE IF sent THEN "piped" ELSE "enqueued"]
     /\ UNCHANGED notTick

\* A call in the body throws (getMessagesSince, formatMessages,
\* queue.sendMessage, saveState): control leaves the for loop for the catch of
\* the iteration, which logs; then the loop sleeps.
TickThrow ==
  /\ tick.phase = "handling"
  /\ tick.pos <= Len(tick.batch)
  /\ tickPasses(tick.batch[tick.pos], tick.batchTrig)
  /\ tick' = [tick EXCEPT !.phase = "sleep", !.threw = tick.pos]
  /\ UNCHANGED notTick

\* The for loop is through: await setTimeout(POLL_INTERVAL).
TickSleep ==
  /\ tick.phase = "handling"
  /\ tick.pos > Len(tick.batch)
  /\ tick' = [tick EXCEPT !.phase = "sleep"]
  /\ UNCHANGED notTick

TickNext ==
  \/ \E c \in TickChats, isTrigger \in BOOLEAN : TickStore(c, isTrigger)
  \/ TickPoll
  \/ \E sent \in BOOLEAN : TickHandle(sent)
  \/ TickThrow
  \/ TickSleep

TickSpec == Init /\ [][TickNext]_vars

\* ------------------------------------------------------------ idle timer
MaxIdleRuns == 2      \* runs of processGroupMessages for the chat
MaxIdleFrames == 3    \* frames an agent streams in one run

notTimer == <<routerVars, mounts, tart, shutdown, child, selector, ipc, sched, groups, loops, clones, inproc, boot, tick, dc, vibe, sessOut>>

\* A frame resets the timer whatever it carries.
armsOnAnyFrame(frame) == TRUE

\* if (result.result) { ... resetIdleTimer() }
armsTimer(frame) == frame.result

\* resetIdleTimer: clearTimeout of the old timer, setTimeout of a new one.
resetIdleTimer(t) == [t EXCEPT !.idleTimer = "armed", !.arms = @ + 1]

\* processGroupMessages up to runAgent: let idleTimer = null.
TimerRunStart ==
  /\ timer.pc \in {"none", "returned"}
  /\ timer.runs < MaxIdleRuns
  /\ timer' = [timer EXCEPT !.pc = "agent", !.idleTimer = "null",
                            !.runs = @ + 1, !.frames = 0, !.results = 0,
                            !.sidOnly = 0, !.arms = 0, !.closes = 0, !.sent = 0]
  /\ UNCHANGED notTimer

\* The streaming callback for one frame, up to its await: a frame with a
\* result and text awaits sendMessage; one with a result and no text left
\* after stripping resets the timer at once; one without a result does not.
TimerFrame(frame) ==
  LET counted == [timer EXCEPT !.frames = @ + 1,
                               !.results = IF frame.result THEN @ + 1 ELSE @,
                               !.sidOnly = IF ~frame.result /\ frame.sid
                                             THEN @ + 1 ELSE @]
  IN /\ timer.pc = "agent"
     /\ timer.frames < MaxIdleFrames
     /\ timer' = IF armsTimer(frame)
                   THEN IF frame.text THEN [counted EXCEPT !.pc = "sending"]
                        ELSE resetIdleTimer(counted)
                   ELSE counted
     /\ UNCHANGED notTimer

\* await whatsapp.sendMessage returns: saveState(); resetIdleTimer().
TimerSent ==
  /\ timer.pc = "sending"
  /\ timer' = [resetIdleTimer(timer) EXCEPT !.pc = "agent", !.sent = @ + 1]
  /\ UNCHANGED notTimer

\* IDLE_TIMEOUT passes on an armed timer: queue.closeStdin(chatJid).
TimerFire ==
  /\ timer.idleTimer = "armed"
  /\ timer' = [timer EXCEPT !.idleTimer = "fired", !.closes = @ + 1,
                            !.closedEarly = @ \/ timer.results = 0,
                            !.closedLate = @ \/ timer.pc \in {"none", "returned"}]
  /\ UNCHANGED notTimer

\* runAgent returns or throws: await whatsapp.setTyping(chatJid, false).
TimerAgentExit ==
  /\ timer.pc = "agent"
  /\ timer' = [timer EXCEPT !.pc = "typingOff"]
  /\ UNCHANGED notTimer

\* if (idleTimer) clearTimeout(idleTimer); the run returns.
TimerRunEnd ==
  /\ timer.pc = "typingOff"
  /\ timer' = [timer EXCEPT !.pc = "returned",
                            !.idleTimer = IF @ = "armed" THEN "cleared" ELSE @]
  /\ UNCHANGED notTimer

TimerFrames ==
  {f \in [result : BOOLEAN, text : BOOLEAN, sid : BOOLEAN] : f.text => f.result}

TimerNext ==
  \/ TimerRunStart
  \/ \E frame \in TimerFrames : TimerFrame(frame)
  \/ TimerSent
  \/ TimerFire
  \/ TimerAgentExit
  \/ TimerRunEnd

TimerSpec == Init /\ [][TimerNext]_vars

\* ------------------------------------------------ Discord inbound handling
notDc == <<routerVars, mounts, tart, shutdown, child, selector, ipc, sched, groups, loops, clones, inproc, boot, tick, timer, vibe, sessOut>>

\* buildPromptFromMessages: the stored messages of the scope after the cursor.
dcPrompt(d) == {t \in d.messages : t > d.lastAgentTimestamp}

\* msg.content matches /^!runtime\s+(claude|codex|opencode|status)$/i: the
\* setting is read or written, a confirmation is sent, and the handler returns.
DcCommand(i) ==
  /\ i = dc.arrived + 1 /\ i <= MaxDcHandlings
  /\ dc' = [dc EXCEPT !.arrived = i,
                      !.h[i] = [NoHandling EXCEPT !.pc = "done", !.kind = "cmd",
                                                  !.ts = i, !.end = "command"]]
  /\ UNCHANGED notDc

\* Any other message: storeDiscordMessage, the prompt is built from the
\* scope's cursor, setDiscordTyping(true) is awaited.
DcMessage(i) ==
  LET stored == [dc EXCEPT !.messages = @ \cup {i}]
  IN /\ i = dc.arrived + 1 /\ i <= MaxDcHandlings
     /\ dc' = [stored EXCEPT !.arrived = i,
                             !.h[i] = [NoHandling EXCEPT
                                         !.pc = "typing", !.kind = "msg", !.ts = i,
                                         !.stored = TRUE,
                                         !.prompt = dcPrompt(stored)]]
     /\ UNCHANGED notDc

\* runAgent is called without the queue.
DcSpawn(i) ==
  /\ dc.h[i].pc = "typing"
  /\ dc' = [dc EXCEPT !.h[i].pc = "agent", !.h[i].spawned = TRUE]
  /\ UNCHANGED notDc

\* runAgent settles: with a result, with an empty result, with status 'error'
\* (result null), or it throws, which ends the handling in the catch block.
\* Otherwise setDiscordTyping(false) is awaited.
DcAgentDone(i, out) ==
  /\ dc.h[i].pc = "agent"
  /\ dc' = IF out = "throw"
             THEN [dc EXCEPT !.h[i].pc = "done", !.h[i].end = "throw"]
             ELSE [dc EXCEPT !.h[i].pc = "typingOff", !.h[i].end = out,
                             !.h[i].result = out = "result"]
  /\ UNCHANGED notDc

\* The cursor the handling writes: lastAgentTimestamp[scope] = msg.timestamp.
dcCursor(h) == h.ts

\* After setDiscordTyping(false): with a result the cursor is written and
\* saved, then sendDiscordMessage is awaited; without one the handling is over.
dcAfterTypingOff(d, i) ==
  IF d.h[i].result
    THEN [d EXCEPT !.lastAgentTimestamp = dcCursor(d.h[i]), !.h[i].moved = TRUE,
                   !.h[i].pc = "sending"]
    ELSE [d EXCEPT !.h[i].pc = "done"]

\* setDiscordTyping(false) returns or throws (the catch block ends the handling).
DcTypingOff(i, throws) ==
  /\ dc.h[i].pc = "typingOff"
  /\ dc' = IF throws THEN [dc EXCEPT !.h[i].pc = "done", !.h[i].end = "throw"]
           ELSE dcAfterTypingOff(dc, i)
  /\ UNCHANGED notDc

\* sendDiscordMessage returns or throws (the catch block ends the handling).
DcSend(i, throws) ==
  /\ dc.h[i].pc = "sending"
  /\ dc' = IF throws THEN [dc EXCEPT !.h[i].pc = "done", !.h[i].end = "throw"]
           ELSE [dc EXCEPT !.h[i].pc = "done", !.h[i].sent = TRUE, !.h[i].end = "ok"]
  /\ UNCHANGED notDc

DcNext ==
  \/ \E i \in 1..MaxDcHandlings : DcCommand(i)
  \/ \E i \in 1..MaxDcHandlings : DcMessage(i)
  \/ \E i \in 1..MaxDcHandlings : DcSpawn(i)
  \/ \E i \in 1..MaxDcHandlings, out \in {"result", "empty", "error", "throw"} :
       DcAgentDone(i, out)
  \/ \E i \in 1..MaxDcHandlings, throws \in BOOLEAN : DcTypingOff(i, throws)
  \/ \E i \in 1..MaxDcHandlings, throws \in BOOLEAN : DcSend(i, throws)

DcSpec == Init /\ [][DcNext]_vars

\* ------------------------------------------ persistent-VM agent scripts
notVibe == <<routerVars, mounts, tart, shutdown, child, selector, ipc, sched, groups, loops, clones, inproc, boot, tick, timer, dc, sessOut>>

VibePrompts == {"p1", "p2"}

\* createAgentScript: the path is /tmp/nanoclaw-vibe-agent-${Date.now()}.sh and
\* writeFileSync replaces whatever is there.
createAgentScript(tmp, now, prompt) == [tmp EXCEPT ![now] = prompt]

\* cleanupTempScripts: every file of /tmp whose name starts with
\* nanoclaw-vibe-agent- is unlinked.
cleanupTempScripts(tmp) == [t \in DOMAIN tmp |-> NoFile]

\* fs.unlinkSync(scriptPath) inside try {} catch {}.
unlinkScript(tmp, scriptPath) == [tmp EXCEPT ![scriptPath] = NoFile]

\* The millisecond clock advances.
VibeClock ==
  /\ vibe.now < MaxVibeClock
  /\ vibe' = [vibe EXCEPT !.now = @ + 1]
  /\ UNCHANGED notVibe

\* runVibeAgent, step 3, then executeVibe spawns the process with --script.
VibeCreate(r, prompt) ==
  /\ vibe.runs[r].pc = "idle"
  /\ vibe' = [vibe EXCEPT !.tmp = createAgentScript(vibe.tmp, vibe.now, prompt),
                          !.runs[r].pc = "running",
                          !.runs[r].scriptPath = vibe.now,
                          !.runs[r].prompt = prompt]
  /\ UNCHANGED notVibe

\* The process closes and executeVibe resolves: step 7 unlinks the script,
\* with probability 0.1 cleanupTempScripts runs, and runVibeAgent returns
\* success or the non-zero exit.
VibeClose(r, exitCode, periodic) ==
  LET own == unlinkScript(vibe.tmp, vibe.runs[r].scriptPath)
      tmp == IF periodic THEN cleanupTempScripts(own) ELSE own
  IN /\ vibe.runs[r].pc = "running"
     /\ vibe' = [vibe EXCEPT !.tmp = tmp,
                             !.runs[r].pc = "returned",
                             !.runs[r].outcome = IF exitCode = 0 THEN "success" ELSE "exit",
                             !.runs[r].left = tmp[vibe.runs[r].scriptPath] # NoFile]
     /\ UNCHANGED notVibe

\* executeVibe rejects (its timeout fired, or spawn emitted 'error'): the catch
\* block of runVibeAgent logs and returns the error.
VibeReject(r, why) ==
  /\ vibe.runs[r].pc = "running"
  /\ vibe' = [vibe EXCEPT !.runs[r].pc = "returned",
                          !.runs[r].outcome = why,
                          !.runs[r].left = vibe.tmp[vibe.runs[r].scriptPath] # NoFile]
  /\ UNCHANGED notVibe

VibeNext ==
  \/ VibeClock
  \/ \E r \in 1..MaxVibeRuns, prompt \in VibePrompts : VibeCreate(r, prompt)
  \/ \E r \in 1..MaxVibeRuns, exitCode \in {0, 1}, periodic \in BOOLEAN :
       VibeClose(r, exitCode, periodic)
  \/ \E r \in 1..MaxVibeRuns, why \in {"timeout", "spawnError"} : VibeReject(r, why)

VibeSpec == Init /\ [][VibeNext]_vars

\* ------------------------------------------------- session id extraction
MaxOutputLines == 3   \* lines of agent output of one run

notCapture == <<routerVars, mounts, tart, shutdown, child, selector, ipc, sched, groups, loops, clones, inproc, boot, tick, timer, dc, vibe>>

\* The lines an agent prints: a JSON record of type 'session' with an id, any
\* other JSON record, plain text, and the empty line.
OutputLines ==
  [kind : {"session"}, id : {1, 2}] \cup
  [kind : {"record", "text", "empty"}, id : {NoSession}]

\* JSON.parse(line) returns for a JSON record and throws for text and for ''.
jsonParses(line) == line.kind \in {"session", "record"}

\* json.type === 'session' && json.id
isSessionRecord(line) == line.kind = "session" /\ line.id # NoSession

\* extractSessionId of tart-runner.ts for the 'opencode' runtime: one try
\* around the loop over the lines, so the first line JSON.parse throws on ends
\* the scan with undefined; the first session record returns its id.
RECURSIVE extractSessionId(_)
extractSessionId(output) ==
  IF output = <<>> THEN NoSession
  ELSE IF ~jsonParses(Head(output)) THEN NoSession
  ELSE IF isSessionRecord(Head(output)) THEN Head(output).id
  ELSE extractSessionId(Tail(output))

\* extractSessionIdFromVibeOutput of vibe-helper.ts: the same loop in the same
\* single try.
RECURSIVE extractSessionIdFromVibeOutput(_)
extractSessionIdFromVibeOutput(output) ==
  IF output = <<>> THEN NoSession
  ELSE IF ~jsonParses(Head(output)) THEN NoSession
  ELSE IF isSessionRecord(Head(output)) THEN Head(output).id
  ELSE extractSessionIdFromVibeOutput(Tail(output))

\* String.trim on the text between the two markers the agent script echoes:
\* empty lines at both ends go.
RECURSIVE trimStart(_)
trimStart(output) ==
  IF output # <<>> /\ Head(output).kind = "empty" THEN trimStart(Tail(output))
  ELSE output

RECURSIVE trimEnd(_)
trimEnd(output) ==
  IF output # <<>> /\ output[Len(output)].kind = "empty"
    THEN trimEnd(SubSeq(output, 1, Len(output) - 1))
    ELSE output

\* extractVibeOutput, both markers present.
extractVibeOutput(stdout) == trimEnd(trimStart(stdout))

\* The stdout 'data' handler of runOpenCodeAgent for one line of a chunk: empty
\* lines are skipped, each line has its own try, and a session record
\* overwrites capturedSessionId. A line cut by the chunk boundary arrives as
\* two pieces, neither of which is JSON.
captureSessionId(captured, line, cut) ==
  IF line.kind = "empty" \/ cut \/ ~jsonParses(line) THEN captured
  ELSE IF isSessionRecord(line) THEN line.id
  ELSE captured

\* An OpenCode run starts on one of the three engines.
CaptureStart(engine) ==
  /\ sessOut.pc = "idle"
  /\ sessOut' = [sessOut EXCEPT !.pc = "running", !.engine = engine]
  /\ UNCHANGED notCapture

\* The agent prints a line. In process it goes through the 'data' handler; the
\* two VM engines only accumulate stdout.
CaptureData(line, cut) ==
  /\ sessOut.pc = "running"
  /\ Len(sessOut.stdout) < MaxOutputLines
  /\ cut => sessOut.engine = "opencode" /\ line.kind # "empty"
  /\ sessOut' = [sessOut EXCEPT
       !.stdout = Append(@, line),
       !.capturedSessionId =
          IF sessOut.engine = "opencode" THEN captureSessionId(@, line, cut) ELSE @]
  /\ UNCHANGED notCapture

\* The process exits with code 0 and a response text was found: the run
\* returns success with newSessionId.
CaptureClose ==
  /\ sessOut.pc = "running"
  /\ sessOut' = [sessOut EXCEPT
       !.pc = "returned",
       !.newSessionId =
          CASE sessOut.engine = "opencode" -> sessOut.capturedSessionId
            [] sessOut.engine = "ssh" -> extractSessionId(sessOut.stdout)
            [] OTHER -> extractSessionIdFromVibeOutput(extractVibeOutput(sessOut.stdout))]
  /\ UNCHANGED notCapture

CaptureNext ==
  \/ \E engine \in Engines : CaptureStart(engine)
  \/ \E line \in OutputLines, cut \in BOOLEAN : CaptureData(line, cut)
  \/ CaptureClose

CaptureSpec == Init /\ [][CaptureNext]_vars

\* ------------------------------------------------------------------ claims
\* The agent child processes alive for a workspace folder.
AgentProcs(f) ==
  Cardinality({c \in Chats : registeredGroups[c].folder = f
                             /\ run[c].pc \in {"agent", "callback"}})
  + (IF f = DISCORD_GROUP.folder
       THEN Cardinality({h \in 1..MaxDiscordMsgs : dh[h].pc = "agent"}) ELSE 0)

\* C1: at every instant and for every workspace at most one agent child process
\* exists, over queue runs, scheduled runs and Discord handling.
C1_PerWorkspaceSerialization == \A f \in Folders : AgentProcs(f) <= 1

\* Nothing is in flight or pending and the loop has seen every stored message of
\* the registered chats: without further input the host does nothing more.
Quiescent ==
  /\ \A c \in Chats : ~queue[c].active /\ ~queue[c].pendingMessages
                      /\ queue[c].pendingTask = "none"
  /\ getNewMessages(RegisteredJids, lastTimestamp) = {}

\* C2: for a chat that requires a trigger, every message followed (or matched)
\* by a trigger message has been handed to an agent in a prompt by the time the
\* host is quiescent, also after one crash of the host.
C2_AtLeastOncePerTriggerWindow ==
  Quiescent =>
    \A m \in store :
      (/\ m.chat \in Chats
       /\ needsTrigger(m.chat)
       /\ \E t \in store : t.chat = m.chat /\ t.trig /\ t.ts >= m.ts)
      => m.ts \in handed

\* C3: no message-loop tick pipes into the running agent a message that was
\* already part of the prompt of that run.
C3_NoRepipe ==
  \A c \in Chats : run[c].kind = "msg" => run[c].piped \cap run[c].prompt = {}

\* C4 (as stated): every per-chat cursor is at most the store-wide cursor.
C4_CursorInvariant == \A w \in AllChats : lastAgentTimestamp[w] <= lastTimestamp

\* C4 (amended): every per-chat cursor is empty or the timestamp of a message
\* stored for that chat, so it never exceeds the newest stored message of the
\* chat; it is not bounded by lastTimestamp.
C4_CursorIsStoredMessage ==
  \A w \in AllChats :
    \/ lastAgentTimestamp[w] = EmptyTs
    \/ \E m \in store : m.chat = w /\ m.ts = lastAgentTimestamp[w]

\* C4 witness: a run has advanced a chat's cursor beyond the store-wide cursor.
C4_Witness == \E w \in AllChats : lastAgentTimestamp[w] > lastTimestamp

\* C5: lastTimestamp never decreases, and a per-chat cursor decreases only by
\* the rollback of a failed run, and then not below the cursor at that run's start.
C5_MonotonicCursors ==
  [][/\ lastTimestamp' >= lastTimestamp
     /\ \A w \in AllChats :
          \/ lastAgentTimestamp'[w] >= lastAgentTimestamp[w]
          \/ /\ w \in Chats
             /\ run[w].kind = "msg"
             /\ run[w].pc = "typingOff"
             /\ run[w].hadError
             /\ lastAgentTimestamp'[w] >= run[w].prev]_vars

\* C6: every additional mount handed to the engine lies under an allowed root
\* and matches no blocked pattern, and is read-only for a non-privileged
\* workspace under nonMainReadOnly.
C6_MountPolicySafety ==
  \A a \in additionalArgs :
    /\ underAllowedRoot(a.hostPath)
    /\ ~matchesBlocked(a.hostPath)
    /\ (mounts.folder # MAIN_GROUP_FOLDER /\ mounts.nonMainReadOnly)
         => a.mode = "read-only"

\* C7: a run of processGroupMessages that ends as failed has sent no message,
\* and its content is still in the Store (the rollback follows in FinishRun).
C7_NoSendOnTerminalError ==
  \A c \in Chats :
    (run[c].kind = "msg" /\ run[c].pc = "typingOff" /\ run[c].hadError)
      => /\ run[c].sent = 0
         /\ run[c].prompt \subseteq Timestamps(store)

\* C8: the prompt of a failed, rolled-back run is handed to an agent again
\* without any further inbound message: by quiescence no retry is owed.
C8_RetryAfterTerminalError ==
  Quiescent => \A c \in Chats : failedPrompt[c] = {}

\* C9: a reply is sent for a frame carrying a newSessionId only after the Store
\* recorded that session id.
C9_SessionBeforeReply == repliedSids \subseteq storedSids

\* C9 witness: the streaming callback has sent the reply of a frame that carried
\* a newSessionId.
C9_Witness ==
  \E c \in Chats :
    /\ run[c].kind = "msg"
    /\ run[c].sent > 0
    /\ run[c].frame.sid # NoSession
    /\ run[c].frame.sid \in repliedSids

\* C10: a non-isolated run is given the session id most recently received from
\* a run of its workspace (none if there is none), a session id is only given
\* to runs of the workspace it was emitted for, and an isolated run is given none.
C10_SessionContinuity ==
  /\ \A c \in Chats :
       run[c].pc \in {"agent", "callback"} =>
         /\ run[c].sid = run[c].expected
         /\ run[c].sid # NoSession => sidOwner[run[c].sid] = registeredGroups[c].folder
         /\ run[c].mode = "isolated" => run[c].sid = NoSession
  /\ \A h \in 1..MaxDiscordMsgs :
       dh[h].pc = "agent" =>
         /\ dh[h].sid = dh[h].expected
         /\ dh[h].sid # NoSession => sidOwner[dh[h].sid] = DISCORD_GROUP.folder

\* C11: no clone created by an invocation of runTartAgent exists after the
\* invocation returned, on any exit path, also when the VM never ran.
C11_TartZeroResidue ==
  \A f \in TartFolders : tart[f].pc = "returned" => ~tart[f].clone

\* A step of the message loop that found messages (not the loop's first
\* iteration after a restart).
IsTick == lastTimestamp' # lastTimestamp /\ crashes' = crashes

C13_PipeOrEnqueue ==
  [][\A c \in Chats :
       LET msgs == getNewMessages(RegisteredJids, lastTimestamp)
           pend == getMessagesSince(c, lastAgentTimestamp[c])
           started == ~queue[c].active /\ queue'[c].active
       IN (IsTick /\ actsOn(msgs, c)) =>
            IF sendMessage(queue[c])
              THEN /\ lastAgentTimestamp'[c] =
                        IF pend # {} THEN LastTs(pend) ELSE lastAgentTimestamp[c]
                   /\ db'.last_agent_timestamp[c] = lastAgentTimestamp'[c]
                   /\ run'[c].piped # {}
                   /\ queue'[c] = queue[c]
              ELSE /\ run'[c].piped = run[c].piped \/ started
                   /\ queue[c].active => queue'[c].pendingMessages
                   /\ IF started
                        THEN lastAgentTimestamp'[c] = Max(run'[c].prompt)
                        ELSE lastAgentTimestamp'[c] = lastAgentTimestamp[c]]_vars

\* C13 witness: a tick piped two messages to a live agent and moved the chat's
\* cursor to the later one.
C13_Witness ==
  \E c \in Chats :
    /\ Cardinality(run[c].piped) > 1
    /\ lastAgentTimestamp[c] = Max(run[c].piped)

\* C14: an enqueue made while a run of the chat is in flight starts no second
\* run and leaves the chat marked pending; an enqueue with no run in flight and
\* work in the Store starts a run; every run that starts consumes the pending
\* mark, so all enqueues since the previous start end in one run; and when a run
\* ends with the chat marked pending (and no task waiting), one run starts if
\* the Store holds work for it, and the chat is not left pending.
C14_CoalescedEnqueue ==
  [][\A c \in Chats :
       LET msgs == getNewMessages(RegisteredJids, lastTimestamp)
           enqueued == IsTick /\ actsOn(msgs, c) /\ ~sendMessage(queue[c])
           msgStart == /\ run'[c].kind = "msg" /\ run'[c].pc = "typing"
                       /\ run[c].pc # "typing"
           ended == /\ crashes' = crashes
                    /\ queue[c].active
                    /\ msgStart \/ ~queue'[c].active
       IN /\ (enqueued /\ queue[c].active) =>
               /\ queue'[c].active /\ queue'[c].pendingMessages
               /\ run'[c] = run[c]
          /\ (enqueued /\ ~queue[c].active /\ startsRun(c, lastAgentTimestamp[c])) =>
               queue'[c].active /\ msgStart
          /\ (msgStart /\ crashes' = crashes) => ~queue'[c].pendingMessages
          /\ (ended /\ queue[c].pendingMessages /\ queue[c].pendingTask = "none") =>
               /\ ~queue'[c].pendingMessages
               /\ msgStart \/ ~startsRun(c, lastAgentTimestamp'[c])]_vars

\* C14 witness: a tick has polled a message of a chat whose run is in flight
\* without a live process, so the chat was enqueued and is marked pending.
C14_Witness ==
  \E c \in Chats :
    /\ queue[c].active /\ queue[c].pendingMessages
    /\ run[c].kind = "msg"
    /\ \E m \in getMessagesSince(c, lastAgentTimestamp[c]) : m.ts <= lastTimestamp

\* C15: once shutdown has begun, no iteration of the message loop polls the
\* Store, advances lastTimestamp, pipes to an agent or enqueues a chat.
C15_LoopStopsFirst ==
  [][shutdown # "running" =>
       /\ lastTimestamp' = lastTimestamp
       /\ db'.last_timestamp = db.last_timestamp
       /\ \A c \in Chats :
            /\ run'[c].piped \subseteq run[c].piped
            /\ queue'[c].pendingMessages => queue[c].pendingMessages]_vars

\* C16: when a run's timeout expired, the timeout handler sent a graceful
\* signal before any forced kill, and the run's final result is an error.
C16_TimeoutGracefulThenForce ==
  child.timedOut =>
    /\ child.settled = "error"
    /\ \E i \in 1..Len(child.signals) :
         /\ child.signals[i] = [sig |-> "SIGTERM", by |-> "timeout"]
         /\ \A j \in 1..Len(child.signals) :
              child.signals[j] = [sig |-> "SIGKILL", by |-> "timeout"] => i < j

\* C16 (amended): when a run's timeout expired, the timeout handler sent the
\* forced kill and nothing else, once, and the run's final result is an error
\* that the later close event does not replace.
C16_TimeoutForceKillOneError ==
  child.timedOut =>
    /\ child.settled = "error"
    /\ Cardinality({i \in 1..Len(child.signals) : child.signals[i].by = "timeout"}) = 1
    /\ \A i \in 1..Len(child.signals) :
         child.signals[i].by = "timeout" => child.signals[i].sig = "SIGKILL"

\* The timeout expired and the killed child's close event was handled.
C16_Witness == child.timedOut /\ child.pc = "closed"

\* C17: in every state of a run the captured stdout and the captured stderr are
\* each at most CONTAINER_MAX_OUTPUT_SIZE long, for every engine, and a child is
\* never signalled for reaching the cap.
C17_OutputCaps ==
  /\ child.stdout <= CONTAINER_MAX_OUTPUT_SIZE
  /\ child.stderr <= CONTAINER_MAX_OUTPUT_SIZE
  /\ \A i \in 1..Len(child.signals) : child.signals[i].by \in {"timeout", "done"}

\* C18: on every engine the agent CLI of a run is the first non-empty of the
\* workspace's own configuration, the settings row agent_runtime as it stood
\* when the run started, the environment variable, and 'claude'.
C18_RuntimeResolutionOrder ==
  LET l == selector.last
  IN l.engine # "none" =>
       l.used = IF l.cfg # Unset THEN l.cfg
                ELSE IF l.setting # Unset THEN l.setting
                ELSE IF selector.env # Unset THEN selector.env
                ELSE "claude"

\* C19: every request the dispatcher handled was attributed to the workspace
\* of the directory it lay in, whatever its sourceGroup said, and two handled
\* requests that lay in the same directory and differ at most in sourceGroup
\* (and met the same task) got the same decision.
C19_IpcSourceTrust ==
  /\ \A e \in ipc.log : e.by = e.dir
  /\ \A e1, e2 \in ipc.log :
       ( /\ e1.dir = e2.dir
         /\ e1.req.type = e2.req.type /\ e1.req.target = e2.req.target
         /\ e1.valid = e2.valid /\ e1.taskFolder = e2.taskFolder )
       => e1.allowed = e2.allowed
  /\ \A m \in ipc.sent : \E e \in ipc.log : e.dir = m.by /\ e.req.type = "message"
  /\ \A t \in ipc.tasks : \E e \in ipc.log :
       e.dir = t.by /\ e.req.type \in {"schedule_task", "cancel_task"}

\* A file naming another workspace as its source, and the same content in that
\* workspace's own directory, were both handled and decided differently.
C19_Witness ==
  \E e1, e2 \in ipc.log :
    /\ e1.req = e2.req /\ e1.dir # e2.dir
    /\ e1.req.sourceGroup = e2.dir
    /\ ~e1.allowed /\ e2.allowed

\* The request is one a non-privileged workspace may not make.
forbiddenToOthers(dir, req, folderOfTask) ==
  \/ req.type \in {"register_group", "refresh_groups"}
  \/ req.type = "schedule_task" /\ req.target # dir
  \/ req.type = "cancel_task" /\ folderOfTask # dir
  \/ req.type = "message" /\ req.target # chatIdOf(dir)

\* C20: a forbidden request lying in a non-privileged workspace's directory is
\* moved to errors and changes no task, message, registration or refresh; the
\* same request in the privileged directory is accepted when it names
\* something that exists; and no task or sent message that a non-privileged
\* workspace caused lies outside its own folder or chat.
C20_IpcAuthorizationMatrix ==
  /\ [][\A file \in ipc.files \ ipc'.files :
          LET forbidden == forbiddenToOthers(file.dir, file.req,
                             IF file.req.type = "cancel_task"
                               THEN taskFolder(file.req.target) ELSE "-")
          IN /\ (file.dir # MAIN_GROUP_FOLDER /\ forbidden) =>
                  /\ file \in ipc'.errors
                  /\ ipc'.tasks = ipc.tasks /\ ipc'.sent = ipc.sent
                  /\ ipc'.registered = ipc.registered
                  /\ ipc'.refreshed = ipc.refreshed
             /\ (file.dir = MAIN_GROUP_FOLDER /\ ipcValid(file.req)) =>
                  /\ file \notin ipc'.errors
                  /\ CASE file.req.type = "message" ->
                            [chatJid |-> file.req.target, by |-> file.dir] \in ipc'.sent
                       [] file.req.type = "schedule_task" ->
                            \E t \in ipc'.tasks \ ipc.tasks :
                               t.group_folder = file.req.target
                       [] file.req.type = "cancel_task" ->
                            \E t \in ipc'.tasks :
                               t.id = file.req.target /\ t.status = "cancelled"
                       [] file.req.type = "register_group" ->
                            file.dir \in ipc'.registered
                       [] OTHER -> file.dir \in ipc'.refreshed
     ]_vars
  /\ [](\A t \in ipc.tasks : t.by # MAIN_GROUP_FOLDER => t.group_folder = t.by)
  /\ [](\A m \in ipc.sent : m.by # MAIN_GROUP_FOLDER => m.chatJid = chatIdOf(m.by))
  /\ [](ipc.registered \cup ipc.refreshed \subseteq {MAIN_GROUP_FOLDER})

\* A non-privileged workspace's request against another workspace's task was
\* moved to errors and the task is still active.
C20_Witness ==
  /\ \E e \in ipc.log :
       /\ e.dir # MAIN_GROUP_FOLDER /\ e.req.type = "cancel_task"
       /\ e.taskFolder \notin {"-", e.dir} /\ ~e.allowed
       /\ \E f \in ipc.errors : f.dir = e.dir /\ f.req = e.req
  /\ \E t \in ipc.tasks : t.status = "active"

\* What a request changes outside the IPC directories.
ipcEffects(i) == <<i.tasks, i.sent, i.registered, i.refreshed>>

C22_OnceTaskRunsOnce ==
  \A id \in SchedTaskIds :
    sched.tasks[id].scheduleType = "once" =>
      /\ sched.started[id] <= 1
      /\ (\E e \in sched.runLog : e.taskId = id) =>
           sched.tasks[id].status = "completed" /\ sched.tasks[id].nextRun = Null

\* C23: a run of a task starts only when the task is due: its status is
\* 'active' and its nextRun is set and not after now.
C23_TaskEligibility ==
  [][\A id \in SchedTaskIds :
       sched'.started[id] > sched.started[id] =>
         id \in DueTasks(sched.tasks, sched.now)]_vars

\* C24: the result update of a recurring task's run stores a nextRun strictly
\* later than the one it replaces and than the time of the run, and for an
\* interval task nextRun = now + scheduleValue.
C24_NextFireProgress ==
  [][\A id \in SchedTaskIds :
       LET t == sched.tasks[id]
       IN ( /\ sched.live = id /\ sched'.runLog # sched.runLog
            /\ t.scheduleType \in {"cron", "interval"} ) =>
          /\ sched'.tasks[id].nextRun > t.nextRun
          /\ sched'.tasks[id].nextRun > sched.liveAt
          /\ t.scheduleType = "interval" =>
               sched'.tasks[id].nextRun = sched.now + t.scheduleValue]_vars

\* C25: removing a task does not end its run in progress; when the run of a
\* removed task ends, its run log entry is recorded and no row is written:
\* the task is not re-created and no nextRun, lastRun, lastResult or status is
\* stored.
C25_TaskDeletedMidRun ==
  [][\A id \in SchedTaskIds :
       /\ ( /\ sched.tasks[id].status # "absent"
            /\ sched'.tasks[id].status = "absent" ) =>
            /\ sched'.live = sched.live /\ sched'.liveAt = sched.liveAt
            /\ sched'.runLog = sched.runLog
       /\ ( /\ sched.live = id /\ sched'.runLog # sched.runLog
            /\ sched.tasks[id].status = "absent" ) =>
            /\ sched'.tasks = sched.tasks
            /\ \E e \in sched'.runLog \ sched.runLog :
                 e.taskId = id /\ e.runAt = sched.liveAt
     ]_vars

\* The run of a task that was removed while it ran has ended and is logged.
C25_Witness ==
  \E e \in sched.runLog :
    ~e.updated /\ sched.tasks[e.taskId] = NoTask /\ sched.live # e.taskId

\* C26: once the state is loaded, exactly one registered chat has the main
\* folder and no two registered chats have the same folder.
C26_WorkspaceInvariant ==
  groups.booted =>
    /\ Cardinality({j \in GroupJids : groups.mem[j] = MAIN_GROUP_FOLDER}) = 1
    /\ \A j1, j2 \in GroupJids :
         (j1 # j2 /\ groups.mem[j1] # NoFolder) => groups.mem[j1] # groups.mem[j2]

\* C27: at most one polling loop is active, the one the first call of
\* startMessageLoop started; no later call starts a loop.
C27_DuplicateLoopProtection ==
  /\ Cardinality({i \in DOMAIN loops.pc : loops.pc[i] # "none"}) <= 1
  /\ \A i \in DOMAIN loops.pc : loops.pc[i] # "none" => i = 1
  /\ loops.calls >= 1 => loops.pc[1] # "none"

\* startMessageLoop was called again while the first loop was polling, also
\* after a poll that threw.
C27_Witness ==
  /\ loops.calls >= 2
  /\ loops.pc[1] = "caught"
  /\ loops.polls >= 2

\* C28: in a restart, a chat whose stored messages after its persisted cursor
\* call for a run (there are some and, where a trigger is needed, one matches)
\* gets one run whose prompt is exactly those messages, started from the
\* persisted cursor; every other chat gets none. The first poll of the message
\* loop changes nothing of this.
C28_StartupRecovery ==
  [][crashes' = crashes + 1 =>
       \A c \in Chats :
         LET cursor == db.last_agent_timestamp[c]
             pend == getMessagesSince(c, cursor)
         IN IF pend # {} /\ (needsTrigger(c) => hasTrigger(pend))
              THEN /\ queue'[c].active
                   /\ run'[c].kind = "msg" /\ run'[c].pc = "typing"
                   /\ run'[c].prev = cursor
                   /\ run'[c].prompt = Timestamps(pend)
              ELSE /\ ~queue'[c].active
                   /\ run'[c] = IdleRun]_vars

\* Recovery has started a run whose prompt is the prompt of the run that
\* failed and was rolled back before the restart, and another chat got no run.
C28_Witness ==
  /\ crashes = 1
  /\ \E c \in Chats :
       /\ run[c].recovered
       /\ failedPrompt[c] # {}
       /\ run[c].prompt = failedPrompt[c]
  /\ \E c \in Chats : run[c].kind = "none" /\ ~queue[c].active

\* C29: two runs of the one-shot VM engine that are in progress at the same
\* time, cleanup included, have different clone names.
C29_UniqueCloneNames ==
  \A i, j \in DOMAIN clones.runs :
    (i # j /\ inProgress(clones.runs[i]) /\ inProgress(clones.runs[j]))
      => clones.runs[i].vmName # clones.runs[j].vmName

writtenThrough(d, ts, agentTs, sess) ==
  /\ d.last_timestamp = ts
  /\ d.last_agent_timestamp = agentTs
  /\ \A f \in DOMAIN sess : d.sessions[f] = sess[f]

C32_CorruptedCursorState ==
  [][(~boot.up /\ boot'.up /\ boot.db.last_agent_timestamp = InvalidJson) =>
       /\ boot'.lastAgentTimestamp = EmptyMap
       /\ boot'.lastTimestamp = orEmpty(boot.db.last_timestamp)
       /\ boot'.sessions = boot.db.sessions
       /\ boot.db.groups \subseteq boot'.registeredGroups
       /\ boot'.registeredGroups \subseteq boot.db.groups \cup {"discord"}]_vars

\* The process is up after a start that found the cursor row damaged, with a
\* loaded loop cursor and a loaded session.
C32_Witness ==
  /\ boot.up /\ boot.warned
  /\ boot.db.last_agent_timestamp = InvalidJson
  /\ boot.lastAgentTimestamp = EmptyMap
  /\ boot.lastTimestamp # EmptyTs
  /\ \E f \in BootChats : boot.sessions[f] # NoSession

\* A run of processGroupMessages for chat c returns in this step, and it failed.
failedRunEnds(c) ==
  /\ run[c].kind = "msg" /\ run[c].pc = "typingOff" /\ run[c].hadError
  /\ run'[c] # run[c] /\ crashes' = crashes

C34_NoChatDroppedInTick ==
  (tick.phase = "sleep" /\ tick.polls > 0) =>
    \A i \in DOMAIN tick.batch :
      (i # tick.threw /\ tickPasses(tick.batch[i], tick.batchTrig)) =>
        tick.outcome[tick.batch[i]] \in {"piped", "enqueued"}

C36_OpenCodeAlwaysSettles ==
  /\ [](child.engine = "opencode" =>
          /\ child.settled \in {"none", "success", "error"}
          /\ ~child.rejected
          /\ child.settled = "none" => child.pc = "running")
  /\ [][(child.engine = "opencode" /\ child.settled # "none") =>
          child'.settled = child.settled]_vars
  /\ (child.engine = "opencode") ~> (child.settled # "none")

\* An 'error' event settled the run of the in-process runner, and the close
\* event that came after it, with exit code 0 and a response text, left the
\* result as it was.
C36_Witness ==
  /\ child.engine = "opencode"
  /\ child.errored /\ child.pc = "closed" /\ child.code = "0"
  /\ child.stdout > 0
  /\ child.settled = "error"

\* The runner itself ended the child after a 'stop' completion event.
endedByRunnerOnStop ==
  /\ child.engine = "opencode"
  /\ child.doneReason = "stop"
  /\ \E i \in 1..Len(child.signals) :
       child.signals[i] = [sig |-> "SIGTERM", by |-> "done"]

\* C37: a run is reported as 'success' only if the child exited with code 0
\* or, in the in-process runner, was ended by the runner after a 'stop'
\* completion event; a child killed by a signal from elsewhere, or one that
\* reported a step_finish with reason 'error', is reported as 'error'.
C37_SuccessMeansCleanExit ==
  (child.pc = "closed" /\ child.settled = "success") =>
    \/ child.code = "0"
    \/ child.code = "null" /\ endedByRunnerOnStop

\* C38: a Discord handling that ended with an agent error, a thrown exception
\* or an empty result sent no reply and did not write the scope's cursor; a
\* '!runtime' command is never stored and never starts an agent.
C38_DiscordFailureLeavesState ==
  \A i \in DOMAIN dc.h :
    /\ (dc.h[i].pc = "done" /\ dc.h[i].end \in {"error", "throw", "empty"}) =>
         ~dc.h[i].sent /\ ~dc.h[i].moved
    /\ dc.h[i].kind = "cmd" =>
         ~dc.h[i].stored /\ ~dc.h[i].spawned /\ dc.h[i].ts \notin dc.messages

\* C39: while a persistent-VM run's process has not finished, the script at
\* its scriptPath exists and holds that run's prompt; and when runVibeAgent
\* has returned, however it ended, no script was left at its scriptPath.
C39_VibeScriptLifetime ==
  \A r \in DOMAIN vibe.runs :
    /\ vibe.runs[r].pc = "running" =>
         vibe.tmp[vibe.runs[r].scriptPath] = vibe.runs[r].prompt
    /\ vibe.runs[r].pc = "returned" => ~vibe.runs[r].left

\* The ids of the session records among the lines of an output.
sessionIdsOf(output) ==
  {output[i].id : i \in {j \in DOMAIN output : isSessionRecord(output[j])}}

\* C40: on each of the three engines, a returned OpenCode run whose output has
\* a line that is a session record with an id returns the id of a session
\* record of its output as newSessionId, whatever the other lines are.
C40_SessionIdExtraction ==
  (sessOut.pc = "returned" /\ sessionIdsOf(sessOut.stdout) # {}) =>
     sessOut.newSessionId \in sessionIdsOf(sessOut.stdout)

====
